---- MODULE Spec2Model ----
(***************************************************************************)
(* Ticket store, redemption (validate), administrative burn, issuance and  *)
(* the bulk issuance pipeline of the tickets repository.                   *)
(*                                                                         *)
(* The store is the Postgres database: every SQL statement is one atomic   *)
(* step.  A validate request is a process that runs its statements one at  *)
(* a time, so that requests of different server processes interleave.      *)
(***************************************************************************)
EXTENDS Integers, Sequences, FiniteSets, TLC

\* ---------------------------------------------------------------- bounds
MaxTickets == 2      \* tickets the issue endpoint is asked to create
MaxCalls == 2        \* validate requests in one behaviour
MaxTime == 1         \* values taken by the store clock now()
MaxWords == 3        \* words of a ticket type text
MaxIds == 3          \* entries of the ticketIds of a burn request
MaxPieces == 3       \* pieces of the text extractUuid is given
MaxRuns == 2
MaxLimit == 2
MaxScans == 3
MaxLines == 3         \* starts of the bulk pipeline process

\* ---------------------------------------------------------------- values
Null == << >>
Some(v) == << v >>

\* crypto.createHash("sha256").update(token).digest("hex") on the secrets used
Sha256(s) ==
  CASE s = "s1" -> "h1"
    [] s = "s2" -> "h2"
    [] s = "s3" -> "h3"
    [] s = "s4" -> "h4"
    [] OTHER -> "hx"

\* rows of table scanner_keys
ScannerKeys ==
  { [id |-> "k1", key_hash |-> "h1", event_id |-> "e1", active |-> TRUE,  expires_at |-> Null],
    [id |-> "k2", key_hash |-> "h2", event_id |-> "e1", active |-> TRUE,  expires_at |-> Some(1)],
    [id |-> "k3", key_hash |-> "h3", event_id |-> "e2", active |-> TRUE,  expires_at |-> Null],
    [id |-> "k4", key_hash |-> "h4", event_id |-> "e1", active |-> FALSE, expires_at |-> Null] }

\* rows of table ticket_types
TicketTypes ==
  { [id |-> "tt1", event_id |-> "e1"],
    [id |-> "tt2", event_id |-> "e2"] }

\* bearer secrets a scanner may present ("" is a missing Authorization header)
Bearers == {"", "s1", "s2", "s3", "s4", "sx"}

\* A ticket id is a uuid.  Ids 1, 2, ... are uuids in the order the store
\* generated them, MaxTickets + 1 is a well formed uuid of no ticket, -1 is a
\* string that is not a uuid and 0 is a missing ticketId.
NoTicket == MaxTickets + 1
IsUuid(t) == t >= 1

VARIABLES
  tickets,    \* table tickets: sequence of rows, the row's id is its index
  now,        \* the store clock
  calls,      \* validate requests: position, inputs, locals and response
  burnRes,    \* response of the last burn request
  burnt,      \* history: ids of the tickets a burn request has updated
  issueRes,   \* response of the last issue request
  ledger,     \* the JSONL log file of the pipeline, one record per line
  pipe,       \* the pipeline process (send-paid-link-tickets), with history
  bulk,       \* the bulk-issue process, with the emails it posted
  eval,       \* an input of a pure function and, once applied, its results
  link,       \* the issue-link-only-db process and its store connection
  listRes,    \* the last list-by-email request and its response
  resend,     \* the resend-from-log process and its output log
  dup,        \* the burn-duplicates process
  scan        \* the scan page: its refs, state and pending work

vars == << tickets, now, calls, burnRes, burnt, issueRes, ledger, pipe, bulk, eval, link,
          listRes, resend, dup, scan >>

\* ------------------------------------------------------- process environment
\* process.env.ISSUE_API_KEY and process.env.ADMIN_API_KEY of the deployment
ISSUE_API_KEY == "ik"
ADMIN_API_KEY == ""

\* ------------------------------------------------------------ store queries
\* ticket_types.event_id of a ticket type id ("" when there is no such type)
EventOfType(ticketTypeId) ==
  IF \E tt \in TicketTypes : tt.id = ticketTypeId
  THEN (CHOOSE tt \in TicketTypes : tt.id = ticketTypeId).event_id
  ELSE ""

\* KeyLookup without the test on expires_at
KeyLookupNoExpiry(tokenHash, t) ==
  { k \in ScannerKeys : k.key_hash = tokenHash /\ k.active = TRUE }

\* KeyLookup without the test on active
KeyLookupNoActive(tokenHash, t) ==
  { k \in ScannerKeys :
      /\ k.key_hash = tokenHash
      /\ (k.expires_at = Null \/ k.expires_at[1] > t) }

\* select id, event_id from scanner_keys where key_hash = $1 and active = true
\*   and (expires_at is null or expires_at > now())
KeyLookup(tokenHash, t) ==
  { k \in ScannerKeys :
      /\ k.key_hash = tokenHash
      /\ k.active = TRUE
      /\ (k.expires_at = Null \/ k.expires_at[1] > t) }

\* UpdateMatches without the test on used
UpdateMatchesUsedToo(tk, i, ticketId, scannerEventId) ==
  /\ i = ticketId
  /\ \E tt \in TicketTypes :
       /\ tk[i].ticket_type_id = tt.id
       /\ tt.event_id = scannerEventId

\* UpdateMatches without the join on the scanner key's event
UpdateMatchesAnyEvent(tk, i, ticketId, scannerEventId) ==
  /\ i = ticketId
  /\ tk[i].used = FALSE

\* where clause of the conditional update of validate, for the row with id i
UpdateMatches(tk, i, ticketId, scannerEventId) ==
  /\ i = ticketId
  /\ tk[i].used = FALSE
  /\ \E tt \in TicketTypes :
       /\ tk[i].ticket_type_id = tt.id
       /\ tt.event_id = scannerEventId

\* RedeemRow that leaves used_at alone
RedeemRowNoStamp(row, scannerKeyId, t) ==
  [row EXCEPT !.used = TRUE,
              !.used_by_scanner_key_id = Some(scannerKeyId)]

\* set clause of the conditional update of validate
RedeemRow(row, scannerKeyId, t) ==
  [row EXCEPT !.used = TRUE,
              !.used_at = Some(t),
              !.used_by_scanner_key_id = Some(scannerKeyId)]

\* RedeemUpdate that stamps the used rows of the id again
RedeemUpdateRestamps(tk, ticketId, scannerEventId, scannerKeyId, t) ==
  [i \in DOMAIN tk |->
     IF UpdateMatchesUsedToo(tk, i, ticketId, scannerEventId)
     THEN RedeemRow(tk[i], scannerKeyId, t)
     ELSE tk[i]]

\* update tickets t set ... from ticket_types tt where ... returning t.id
RedeemUpdate(tk, ticketId, scannerEventId, scannerKeyId, t) ==
  [i \in DOMAIN tk |->
     IF UpdateMatches(tk, i, ticketId, scannerEventId)
     THEN RedeemRow(tk[i], scannerKeyId, t)
     ELSE tk[i]]

\* rowCount of that update
RedeemRowCount(tk, ticketId, scannerEventId) ==
  Cardinality({ i \in DOMAIN tk : UpdateMatches(tk, i, ticketId, scannerEventId) })

\* loadTicketRow: the ticket joined to its type and event, scoped to the
\* scanner key's event; null when the select returns no row
LoadTicketRow(tk, ticketId, scannerEventId) ==
  IF /\ ticketId \in DOMAIN tk
     /\ EventOfType(tk[ticketId].ticket_type_id) = scannerEventId
  THEN Some([id |-> ticketId,
             email |-> tk[ticketId].email,
             used |-> tk[ticketId].used,
             used_at |-> tk[ticketId].used_at,
             used_by_scanner_key_id |-> tk[ticketId].used_by_scanner_key_id])
  ELSE Null

\* NextResponse.json of validate
Response(http, ok, status, error, ticket) ==
  [http |-> http, ok |-> ok, status |-> status, error |-> error, ticket |-> ticket]

NoResponse == Response(0, FALSE, "", "", Null)

\* --------------------------------------------------------------- validate
Calls == 1 .. MaxCalls

IdleCall ==
  [pc |-> "idle", bearer |-> "", ticketId |-> 0, keyKind |-> "",
   scannerEventId |-> "", scannerKeyId |-> "", rowCount |-> 0,
   afterBurn |-> FALSE, res |-> NoResponse, conn |-> "none"]

\* what a presented secret is at clock t, read off the scanner_keys table
KeyKind(bearer, t) ==
  LET rows == { k \in ScannerKeys : k.key_hash = Sha256(bearer) }
      k == CHOOSE r \in rows : TRUE
  IN  IF rows = {} THEN "unknown"
      ELSE IF ~k.active THEN "inactive"
      ELSE IF k.expires_at # Null /\ k.expires_at[1] <= t THEN "expired"
      ELSE "valid"

\* tokens a scanner presents: an issued ticket, a uuid of no ticket, a
\* malformed string or nothing
ScanTokens == DOMAIN tickets \cup {NoTicket, -1, 0}

\* the response leaves the handler; the finally block ends the client when
\* the handler had created one (conn is "none" before new Client, "open" after
\* connect, "closed" after end)
Finish(c, rec, res) ==
  calls' = [calls EXCEPT ![c] =
    [rec EXCEPT !.pc = "done", !.res = res,
                !.conn = IF rec.conn = "open" THEN "closed" ELSE rec.conn]]

\* POST of validate up to and including the scanner key query.  keyKind and
\* afterBurn are history: what the presented secret is at the time of the key
\* query, and whether the ticket was already burned when the request arrived.
ValidateBegin(c, bearer, ticketId) ==
  /\ calls[c].pc = "idle"
  /\ \A d \in Calls : d < c => calls[d].pc # "idle"
  /\ LET rec == [calls[c] EXCEPT !.bearer = bearer, !.ticketId = ticketId,
                                 !.keyKind = KeyKind(bearer, now),
                                 !.afterBurn = ticketId \in burnt]
         keyRes == KeyLookup(Sha256(bearer), now)
         key == CHOOSE k \in keyRes : TRUE
     IN  IF bearer = ""
         THEN Finish(c, rec, Response(401, FALSE, "", "Missing Authorization Bearer token", Null))
         ELSE IF ticketId = 0
         THEN Finish(c, rec, Response(400, FALSE, "", "ticketId is required", Null))
         ELSE IF keyRes = {}
         THEN Finish(c, [rec EXCEPT !.conn = "open"],
                     Response(403, FALSE, "", "Invalid scanner key", Null))
         ELSE calls' = [calls EXCEPT ![c] =
                 [rec EXCEPT !.pc = "update", !.conn = "open",
                             !.scannerEventId = key.event_id,
                             !.scannerKeyId = key.id]]
  /\ UNCHANGED << tickets, now, burnRes, burnt, issueRes, ledger, pipe, bulk, eval, link, listRes,
                  resend, dup, scan >>

\* the conditional update; a ticketId that is no uuid makes the store throw,
\* which the handler's catch answers with 500
ValidateUpdate(c) ==
  /\ calls[c].pc = "update"
  /\ LET rec == calls[c]
     IN  IF ~IsUuid(rec.ticketId)
         THEN /\ Finish(c, rec, Response(500, FALSE, "", "invalid input syntax for type uuid", Null))
              /\ UNCHANGED tickets
         ELSE /\ tickets' = RedeemUpdate(tickets, rec.ticketId, rec.scannerEventId,
                                         rec.scannerKeyId, now)
              /\ calls' = [calls EXCEPT ![c] =
                   [rec EXCEPT !.pc = "load",
                               !.rowCount = RedeemRowCount(tickets, rec.ticketId,
                                                           rec.scannerEventId)]]
  /\ UNCHANGED << now, burnRes, burnt, issueRes, ledger, pipe, bulk, eval, link, listRes,
                  resend, dup, scan >>

\* ValidateLoad that answers ALREADY_USED whenever the update changed no row
ValidateLoadNoNotFound(c) ==
  /\ calls[c].pc = "load"
  /\ LET rec == calls[c]
         ticket == LoadTicketRow(tickets, rec.ticketId, rec.scannerEventId)
     IN  IF rec.rowCount = 1
         THEN Finish(c, rec, Response(200, TRUE, "VALID", "", ticket))
         ELSE Finish(c, rec, Response(200, TRUE, "ALREADY_USED", "", ticket))
  /\ UNCHANGED << tickets, now, burnRes, burnt, issueRes, ledger, pipe, bulk, eval, link, listRes,
                  resend, dup, scan >>

\* loadTicketRow and the response
ValidateLoad(c) ==
  /\ calls[c].pc = "load"
  /\ LET rec == calls[c]
         ticket == LoadTicketRow(tickets, rec.ticketId, rec.scannerEventId)
     IN  IF rec.rowCount = 1
         THEN Finish(c, rec, Response(200, TRUE, "VALID", "", ticket))
         ELSE IF ticket = Null
         THEN Finish(c, rec, Response(200, TRUE, "NOT_FOUND", "", Null))
         ELSE Finish(c, rec, Response(200, TRUE, "ALREADY_USED", "", ticket))
  /\ UNCHANGED << tickets, now, burnRes, burnt, issueRes, ledger, pipe, bulk, eval, link, listRes,
                  resend, dup, scan >>

\* ------------------------------------------------------------------- burn
\* the environment of the deployed service: ADMIN_API_KEY is not set and
\* ISSUE_API_KEY is (Null is a variable that is not set)
ProcessEnv ==
  [ADMIN_API_KEY |-> IF ADMIN_API_KEY = "" THEN Null ELSE Some(ADMIN_API_KEY),
   ISSUE_API_KEY |-> Some(ISSUE_API_KEY)]

\* environments an admin route may be deployed with
AdminEnvs ==
  { ProcessEnv,
    [ADMIN_API_KEY |-> Some("ak"), ISSUE_API_KEY |-> Some(ISSUE_API_KEY)],
    [ADMIN_API_KEY |-> Some(""), ISSUE_API_KEY |-> Some(ISSUE_API_KEY)],
    [ADMIN_API_KEY |-> Null, ISSUE_API_KEY |-> Null] }

\* (process.env.ADMIN_API_KEY ?? process.env.ISSUE_API_KEY ?? "").trim()
requiredKey(env) ==
  IF env.ADMIN_API_KEY # Null THEN env.ADMIN_API_KEY[1]
  ELSE IF env.ISSUE_API_KEY # Null THEN env.ISSUE_API_KEY[1]
  ELSE ""

\* requireAdminAuth that accepts every bearer that is present
requireAdminAuthAnyBearer(env, bearer) ==
  IF requiredKey(env) = "" THEN 500
  ELSE IF bearer = "" THEN 401
  ELSE 0

\* requireAdminAuth: 0 when the bearer is the admin key, else the status
requireAdminAuth(env, bearer) ==
  IF requiredKey(env) = "" THEN 500
  ELSE IF bearer = "" \/ bearer # requiredKey(env) THEN 401
  ELSE 0

\* requireAdminAuth in the environment of the deployed service
RequireAdminAuth(bearer) == requireAdminAuth(ProcessEnv, bearer)

\* normalizeTicketIds: the distinct uuid-shaped entries of the input
NormalizeTicketIds(input) ==
  { input[n] : n \in { m \in DOMAIN input : IsUuid(input[m]) } }

\* BurnRow that resets the ticket instead of marking it used
BurnRowReset(row, t) ==
  [row EXCEPT !.used = FALSE, !.used_at = Null, !.used_by_scanner_key_id = Null]

\* BurnRow that stamps used_at but leaves the used flag alone
BurnRowNoFlag(row, t) ==
  [row EXCEPT !.used_at = Some(t), !.used_by_scanner_key_id = Null]

\* set clause of the update of burn
BurnRow(row, t) ==
  [row EXCEPT !.used = TRUE, !.used_at = Some(t), !.used_by_scanner_key_id = Null]

\* update tickets set ... where id = any($1::uuid[]) returning id, used
BurnUpdate(tk, ids, t) ==
  [i \in DOMAIN tk |-> IF i \in ids THEN BurnRow(tk[i], t) ELSE tk[i]]

\* rowCount that counts the ids of the request
BurnRowCountOfIds(tk, ids) == Cardinality(ids)

\* res.rowCount of the update of burn: the rows whose id is among ids
BurnRowCount(tk, ids) == Cardinality(ids \cap DOMAIN tk)

\* the request a burn response answers and the response: status, ok, burned,
\* and the store connection of the request ("none" when no client was
\* created, "closed" when it was connected and ended)
BurnResponse(env, bearer, input, http, burned, conn) ==
  [http |-> http, ok |-> http = 200, burned |-> burned, input |-> input,
   bearer |-> bearer, requiredKey |-> requiredKey(env), conn |-> conn]

\* POST of burn in the environment env (the frame leaves out dup, the process
\* of the script that calls the route)
BurnPOST(env, bearer, input) ==
  /\ LET auth == requireAdminAuth(env, bearer)
         ids == NormalizeTicketIds(input)
     IN  IF auth # 0
         THEN /\ burnRes' = BurnResponse(env, bearer, input, auth, 0, "none")
              /\ UNCHANGED << tickets, burnt >>
         ELSE IF ids = {}
         THEN /\ burnRes' = BurnResponse(env, bearer, input, 400, 0, "none")
              /\ UNCHANGED << tickets, burnt >>
         ELSE /\ tickets' = BurnUpdate(tickets, ids, now)
              /\ burnt' = burnt \cup (ids \cap DOMAIN tickets)
              /\ burnRes' = BurnResponse(env, bearer, input, 200,
                                         BurnRowCount(tickets, ids), "closed")
  /\ UNCHANGED << now, calls, issueRes, ledger, pipe, bulk, eval, link, listRes,
                  resend, scan >>

\* POST of burn
Burn(bearer, input) == BurnPOST(ProcessEnv, bearer, input) /\ UNCHANGED dup

\* ---------------------------------------------------------- list by email
NoListRes ==
  [http |-> 0, ok |-> FALSE, rows |-> {}, email |-> "", bearer |-> "",
   requiredKey |-> "", conn |-> "none"]

\* String.prototype.trim and SQL lower() on an email address
lowerEmail(e) ==
  CASE e \in {" A@B.is", "A@B.is"} -> "a@b.is"
    [] OTHER -> e

\* POST of the list-by-email route in the environment env; rows are the ids
\* of the tickets it returns (the frame leaves out dup, the process of the
\* script that calls the route)
ByEmailPOST(env, bearer, email) ==
  /\ LET auth == requireAdminAuth(env, bearer)
         rows == { i \in DOMAIN tickets : lowerEmail(tickets[i].email) = lowerEmail(email) }
         res(http, r, conn) ==
           [http |-> http, ok |-> http = 200, rows |-> r, email |-> email,
            bearer |-> bearer, requiredKey |-> requiredKey(env), conn |-> conn]
     IN  listRes' = IF auth # 0 THEN res(auth, {}, "none")
                    ELSE IF lowerEmail(email) = "" THEN res(400, {}, "none")
                    ELSE res(200, rows, "closed")
  /\ UNCHANGED << tickets, now, calls, burnRes, burnt, issueRes, ledger, pipe, bulk, eval, link,
                  resend, scan >>

\* ------------------------------------------------------------------ issue
\* insert into tickets (ticket_type_id, email, name) values (...) with the
\* column defaults used = false, used_at = null, issued_at = now()
InsertTicket(tk, ticketTypeId, email, t) ==
  Append(tk, [ticket_type_id |-> ticketTypeId, email |-> email,
              used |-> FALSE, used_at |-> Null,
              used_by_scanner_key_id |-> Null, issued_at |-> t])

\* what the delivery step of a request meets: the mail is sent, the request
\* asked to skip it, no SMTP transport is configured, or sendMail throws
Mails == {"sent", "skipEmail", "noTransport", "sendFails"}

\* emailResult of a response, Null where the response has none
EmailResult(mail) ==
  CASE mail = "sent" -> Some([ok |-> TRUE, error |-> "", skipped |-> FALSE])
    [] mail = "skipEmail" -> Some([ok |-> FALSE, error |-> "Skipped", skipped |-> TRUE])
    [] mail = "noTransport" -> Some([ok |-> FALSE, error |-> "SMTP not configured", skipped |-> TRUE])
    [] OTHER -> Some([ok |-> FALSE, error |-> "sendMail failed", skipped |-> FALSE])

IssueFailure(http, tk, inserted) ==
  [http |-> http, ok |-> FALSE, ticketId |-> 0, email |-> Null,
   inserted |-> inserted, delivery |-> "none", tickets |-> tk]

\* POST of issue with a throwing sendMail escaping to the outer catch
IssuePOSTMailThrows(tk, bearer, ticketTypeId, email, linkOnly, qrOk, mail, t) ==
  IF ISSUE_API_KEY # "" /\ (bearer = "" \/ bearer # ISSUE_API_KEY)
  THEN IssueFailure(401, tk, FALSE)
  ELSE IF ticketTypeId = "" \/ email = ""
  THEN IssueFailure(400, tk, FALSE)
  ELSE IF EventOfType(ticketTypeId) = ""
  THEN IssueFailure(400, tk, FALSE)
  ELSE LET after == InsertTicket(tk, ticketTypeId, email, t)
       IN  IF ~linkOnly /\ ~qrOk
           THEN IssueFailure(500, after, TRUE)
           ELSE IF mail = "sendFails"
           THEN [IssueFailure(500, after, TRUE) EXCEPT !.delivery = mail]
           ELSE [http |-> 200, ok |-> TRUE, ticketId |-> Len(after),
                 email |-> EmailResult(mail), inserted |-> TRUE,
                 delivery |-> mail, tickets |-> after]

\* POST of issue with the insert made before the ticket type is looked up
IssuePOSTInsertsFirst(tk, bearer, ticketTypeId, email, linkOnly, qrOk, mail, t) ==
  IF ISSUE_API_KEY # "" /\ (bearer = "" \/ bearer # ISSUE_API_KEY)
  THEN IssueFailure(401, tk, FALSE)
  ELSE IF ticketTypeId = "" \/ email = ""
  THEN IssueFailure(400, tk, FALSE)
  ELSE LET after == InsertTicket(tk, ticketTypeId, email, t)
       IN  IF EventOfType(ticketTypeId) = ""
           THEN IssueFailure(400, after, TRUE)
           ELSE IF ~linkOnly /\ ~qrOk
           THEN IssueFailure(500, after, TRUE)
           ELSE [http |-> 200, ok |-> TRUE, ticketId |-> Len(after),
                 email |-> EmailResult(mail), inserted |-> TRUE,
                 delivery |-> mail, tickets |-> after]

\* POST of issue on the store: the response and the table afterwards, with
\* whether the insert ran and what the delivery step met ("none" when it was
\* not reached). qrOk is whether QRCode.toBuffer succeeds when a QR is
\* attached.
IssuePOST(tk, bearer, ticketTypeId, email, linkOnly, qrOk, mail, t) ==
  IF ISSUE_API_KEY # "" /\ (bearer = "" \/ bearer # ISSUE_API_KEY)
  THEN IssueFailure(401, tk, FALSE)
  ELSE IF ticketTypeId = "" \/ email = ""
  THEN IssueFailure(400, tk, FALSE)
  ELSE IF EventOfType(ticketTypeId) = ""
  THEN IssueFailure(400, tk, FALSE)
  ELSE LET after == InsertTicket(tk, ticketTypeId, email, t)
       IN  IF ~linkOnly /\ ~qrOk
           THEN IssueFailure(500, after, TRUE)
           ELSE [http |-> 200, ok |-> TRUE, ticketId |-> Len(after),
                 email |-> EmailResult(mail), inserted |-> TRUE,
                 delivery |-> mail, tickets |-> after]

\* an issue request made directly to the endpoint
Issue(bearer, ticketTypeId, email, linkOnly, qrOk, mail) ==
  /\ Len(tickets) < MaxTickets
  /\ LET r == IssuePOST(tickets, bearer, ticketTypeId, email, linkOnly, qrOk, mail, now)
     IN  /\ tickets' = r.tickets
         /\ issueRes' = [http |-> r.http, ok |-> r.ok, ticketId |-> r.ticketId,
                         email |-> r.email, inserted |-> r.inserted,
                         delivery |-> r.delivery, to |-> email,
                         bearer |-> bearer, ticketTypeId |-> ticketTypeId,
                         conn |-> IF r.http = 401 \/ ticketTypeId = "" \/ email = ""
                                  THEN "none" ELSE "closed"]
  /\ UNCHANGED << now, calls, burnRes, burnt, ledger, pipe, bulk, eval, link, listRes,
                  resend, dup, scan >>

\* the store clock advances
Tick ==
  /\ now < MaxTime
  /\ now' = now + 1
  /\ UNCHANGED << tickets, calls, burnRes, burnt, issueRes, ledger, pipe, bulk, eval, link, listRes,
                  resend, dup, scan >>

\* ---------------------------------------------------------- bulk pipeline
\* rows of the CSV source, in file order
Source ==
  << [email |-> "a@b.is",  paid |-> "Ja",  choice |-> "Matur og ball"],
     [email |-> "c@d.is",  paid |-> "Ja",  choice |-> "Bara ball"],
     [email |-> " A@B.is", paid |-> "ja",  choice |-> "ball"],
     [email |-> "e@f.is",  paid |-> "Nei", choice |-> "Bara ball"] >>

\* normalizeEmail: trim and lower-case
normalizeEmail(e) ==
  CASE e = " A@B.is" -> "a@b.is"
    [] e = "A@B.is" -> "a@b.is"
    [] OTHER -> e

\* the words of the texts of Source and of the type names of the service
\* (a text is handled as the sequence of its words, separated by one space)
Words(x) ==
  CASE x = "" -> << >>
    [] x = "Matur og ball" -> << "Matur", "og", "ball" >>
    [] x = "Bara ball" -> << "Bara", "ball" >>
    [] x = "Matur + ball" -> << "Matur", "+", "ball" >>
    [] OTHER -> << x >>

RECURSIVE Join(_)
\* the text of a sequence of words
Join(ws) ==
  IF ws = << >> THEN ""
  ELSE IF Len(ws) = 1 THEN ws[1]
  ELSE ws[1] \o " " \o Join(Tail(ws))

\* toLowerCase with the diacritics removed, on one word
lowerWord(w) ==
  CASE w = "Ja" -> "ja"
    [] w = "Nei" -> "nei"
    [] w = "Matur" -> "matur"
    [] w = "Bara" -> "bara"
    [] w = "Ball" -> "ball"
    [] OTHER -> w

lowerWords(ws) == [n \in DOMAIN ws |-> lowerWord(ws[n])]

\* stripDiacriticsLower
stripDiacriticsLower(x) == Join(lowerWords(Words(x)))

isYesIcelandic(x) == stripDiacriticsLower(x) \in {"ja", "já", "ja,"}

isProbablyEmail(e) == e \in {"a@b.is", "c@d.is", "e@f.is"}

\* sub is a substring of the word w
wordIncludes(w, sub) ==
  \/ sub = "mat" /\ w \in {"mat", "matur"}
  \/ sub = "ball" /\ w \in {"ball", "handball"}

\* String.prototype.includes on the text of the words key, for a sub without
\* a space
includes(key, sub) == \E n \in DOMAIN key : wordIncludes(key[n], sub)

\* wantedTypeName with the ball test first
wantedTypeNameBallFirst(ticketChoiceKey) ==
  IF includes(ticketChoiceKey, "ball") THEN "Bara ball"
  ELSE IF includes(ticketChoiceKey, "mat") /\ includes(ticketChoiceKey, "ball")
  THEN "Matur + ball"
  ELSE ""

\* wantedTypeName of a row, from the words of its normalized type text
wantedTypeName(ticketChoiceKey) ==
  IF includes(ticketChoiceKey, "mat") /\ includes(ticketChoiceKey, "ball")
  THEN "Matur + ball"
  ELSE IF includes(ticketChoiceKey, "ball") THEN "Bara ball"
  ELSE ""

\* typeIdByName.get(stripDiacriticsLower(name)), the map built from the types
\* "Matur + ball" and "Bara ball" of the service
typeIdByName(name) ==
  CASE stripDiacriticsLower(name) = "matur + ball" -> "tt1"
    [] stripDiacriticsLower(name) = "bara ball" -> "tt2"
    [] OTHER -> ""

\* the ticket type a row asks for, resolved against the types of the service
wantedTicketTypeId(choice) ==
  typeIdByName(wantedTypeName(lowerWords(Words(choice))))

RECURSIVE paidRowsFrom(_)
\* the loop building paidRows, from source row n on
paidRowsFrom(n) ==
  IF n > Len(Source) THEN << >>
  ELSE LET row == Source[n]
           email == normalizeEmail(row.email)
           wantedId == wantedTicketTypeId(row.choice)
       IN  IF /\ isYesIcelandic(row.paid)
              /\ email # "" /\ isProbablyEmail(email)
              /\ wantedId # ""
           THEN << [email |-> email, ticketTypeId |-> wantedId] >> \o paidRowsFrom(n + 1)
           ELSE paidRowsFrom(n + 1)

RECURSIVE dedupe(_, _)
\* Dedupe by email (keep first occurrence)
dedupe(rows, seen) ==
  IF rows = << >> THEN << >>
  ELSE IF Head(rows).email \in seen THEN dedupe(Tail(rows), seen)
  ELSE << Head(rows) >> \o dedupe(Tail(rows), seen \cup {Head(rows).email})

\* A line of a JSONL file is the record of the JSON object it holds, with the
\* fields the object has; [partial |-> TRUE] is a line that is no JSON text
\* (the beginning of a record, cut off).
\* JSON.parse of a line: Null when it throws
JSONparse(line) == IF "partial" \in DOMAIN line THEN Null ELSE Some(line)

\* obj?.ok and obj?.email as conditions
truthyOk(obj) == "ok" \in DOMAIN obj /\ obj.ok
truthyEmail(obj) == "email" \in DOMAIN obj /\ obj.email # ""

\* readJsonlSet reading only the last line of the log
readJsonlSetLastOnly(log) ==
  { normalizeEmail(log[n].email) :
      n \in { m \in DOMAIN log : m = Len(log) /\ log[m].ok /\ log[m].email # "" } }

\* readJsonlSet that takes every record, whatever its ok
readJsonlSetAnyRecord(log) ==
  { normalizeEmail(log[n].email) : n \in { m \in DOMAIN log : log[m].email # "" } }

\* readJsonlSet that gives up at the first line that does not parse
readJsonlSetStopsAtDamage(log) ==
  { normalizeEmail(log[n].email) :
      n \in { m \in DOMAIN log :
                /\ \A k \in 1 .. m : JSONparse(log[k]) # Null
                /\ truthyOk(log[m]) /\ truthyEmail(log[m]) } }

\* readJsonlSet: the emails of the ok records of the log; a line that does
\* not parse is ignored (catch), as is an object without a truthy ok or email
readJsonlSet(log) ==
  { normalizeEmail(log[n].email) :
      n \in { m \in DOMAIN log :
                /\ JSONparse(log[m]) # Null
                /\ truthyOk(log[m]) /\ truthyEmail(log[m]) } }

RECURSIVE filterPending(_, _)
\* deduped.filter((r) => !alreadySent.has(r.email))
filterPending(rows, alreadySent) ==
  IF rows = << >> THEN << >>
  ELSE IF Head(rows).email \in alreadySent THEN filterPending(Tail(rows), alreadySent)
  ELSE << Head(rows) >> \o filterPending(Tail(rows), alreadySent)

\* maxAttempts of the issue call
IssueMaxAttempts == 6

\* baseDelayMs of the issue call
BaseDelayMs == 800

\* a delay that grows by baseDelayMs with every attempt
BackoffDelayLinear(attempt) == BaseDelayMs * attempt

\* Math.round(baseDelayMs * Math.pow(2, attempt - 1))
BackoffDelay(attempt) == BaseDelayMs * 2^(attempt - 1)

\* an attempt that is handled and answered, the service meeting a sendMail
\* that fails
MailOutcomes == {"answered", "answeredNoMail"}

\* what the network and the gateway do with one attempt of the issue call:
\* the request is handled and answered, handled with the answer lost, not
\* delivered, or answered 429 or 503 without reaching the handler
Outcomes == {"answered", "lostResponse", "notDelivered", "status429", "status503"}

NoFetchRes ==
  [ok |-> FALSE, status |-> 0, jsonOk |-> FALSE, ticketId |-> 0, emailResult |-> Null]

\* the number of ok records among the records of log after the first from
OkRecords(log, from) ==
  Cardinality({ n \in DOMAIN log : n > from /\ truthyOk(log[n]) })

\* const limit = max > 0 ? max : pending.length, as the number of rows of
\* pending.slice(0, limit)
limit(max, pending) ==
  IF max > 0 /\ max < Len(pending) THEN max ELSE Len(pending)

\* main with the dry-run flag not stopping the run before the send loop
PipelineMainIgnoresDryRun(max, dryRun, issueApiKey) ==
  /\ pipe.pc = "off"
  /\ pipe.runs < MaxRuns
  /\ LET deduped == dedupe(paidRowsFrom(1), {})
         alreadySent == readJsonlSet(ledger)
         pending == filterPending(deduped, alreadySent)
     IN  pipe' = [pc |-> IF pending = << >> THEN "off" ELSE "send",
                  exitCode |-> IF pending = << >> THEN 0 ELSE -1,
                  runs |-> pipe.runs + 1,
                  dryRun |-> dryRun,
                  issueApiKey |-> issueApiKey,
                  pending |-> pending,
                  limit |-> limit(max, pending),
                  i |-> 1, attempt |-> 1, res |-> NoFetchRes,
                  t0 |-> Len(tickets), l0 |-> Len(ledger),
                  prev |-> [created |-> Len(tickets) - pipe.t0,
                            okRecords |-> OkRecords(ledger, pipe.l0),
                            planned |-> Len(pipe.pending)],
                  called |-> << >>, last |-> -1, slept |-> 0]
  /\ UNCHANGED << tickets, now, calls, burnRes, burnt, issueRes, ledger, bulk, eval, link, listRes,
                  resend, dup, scan >>

\* main up to the send loop: plan the run from the source and the log.
\* History kept with the process: t0 and l0 are the sizes of the table and of
\* the log when the run started, prev what the run before planned, created and logged,
\* called the recipients fetchJsonWithRetry was invoked for, exitCode the exit
\* code of the process (-1 while it runs and when it was killed), last and slept
\* the status of the latest attempt of the current call and the backoff wait
\* made after it.
PipelineMain(max, dryRun, issueApiKey) ==
  /\ pipe.pc = "off"
  /\ pipe.runs < MaxRuns
  /\ LET deduped == dedupe(paidRowsFrom(1), {})
         alreadySent == readJsonlSet(ledger)
         pending == filterPending(deduped, alreadySent)
     IN  pipe' = [pc |-> IF dryRun \/ pending = << >> THEN "off" ELSE "send",
                  exitCode |-> IF dryRun \/ pending = << >> THEN 0 ELSE -1,
                  runs |-> pipe.runs + 1,
                  dryRun |-> dryRun,
                  issueApiKey |-> issueApiKey,
                  pending |-> pending,
                  limit |-> limit(max, pending),
                  i |-> 1, attempt |-> 1, res |-> NoFetchRes,
                  t0 |-> Len(tickets), l0 |-> Len(ledger),
                  prev |-> [created |-> Len(tickets) - pipe.t0,
                            okRecords |-> OkRecords(ledger, pipe.l0),
                            planned |-> Len(pipe.pending)],
                  called |-> << >>, last |-> -1, slept |-> 0]
  /\ UNCHANGED << tickets, now, calls, burnRes, burnt, issueRes, ledger, bulk, eval, link, listRes,
                  resend, dup, scan >>

\* main started without --max, with the dry-run flag ignored
PipelineStartIgnoresDryRun(dryRun, issueApiKey) ==
  PipelineMainIgnoresDryRun(0, dryRun, issueApiKey)

\* main started without --max (max is 0 and every pending row is in the run)
PipelineStart(dryRun, issueApiKey) == PipelineMain(0, dryRun, issueApiKey)

\* shouldRetry also for the other client errors
shouldRetryClientErrors(status) == status >= 400

\* shouldRetry of fetchJsonWithRetry
shouldRetry(status) == status = 429 \/ status >= 500

\* the attempt ceiling never reached
lastAttemptNever(attempt) == FALSE

\* attempt === maxAttempts
lastAttempt(attempt) == attempt = IssueMaxAttempts

\* one iteration of the loop of fetchJsonWithRetry for the current row
PipelineAttempt(outcome) ==
  /\ pipe.pc = "send"
  /\ LET row == pipe.pending[pipe.i]
         handled == outcome \in {"answered", "answeredNoMail", "lostResponse"}
         mail == IF outcome = "answeredNoMail" THEN "sendFails" ELSE "sent"
         r == IssuePOST(tickets, pipe.issueApiKey, row.ticketTypeId, row.email, TRUE, TRUE, mail, now)
         threw == outcome \in {"lostResponse", "notDelivered"}
         status == CASE outcome \in {"answered", "answeredNoMail"} -> r.http
                     [] outcome = "status429" -> 429
                     [] outcome = "status503" -> 503
                     [] OTHER -> 0
         resOk == ~threw /\ status >= 200 /\ status <= 299
         retry == shouldRetry(status)
         last == lastAttempt(pipe.attempt)
         seen == [pipe EXCEPT !.last = status,
                              !.slept = 0,
                              !.called = IF pipe.attempt = 1
                                         THEN Append(pipe.called, row.email)
                                         ELSE pipe.called]
     IN  /\ tickets' = IF handled THEN r.tickets ELSE tickets
         /\ IF resOk
            THEN pipe' = [seen EXCEPT !.pc = "log",
                            !.res = [ok |-> TRUE, status |-> status, jsonOk |-> r.ok,
                                     ticketId |-> r.ticketId, emailResult |-> r.email]]
            ELSE IF ~threw /\ (~retry \/ last)
            THEN pipe' = [seen EXCEPT !.pc = "log",
                            !.res = [ok |-> FALSE, status |-> status, jsonOk |-> FALSE,
                                     ticketId |-> 0, emailResult |-> Null]]
            ELSE IF threw /\ last
            THEN pipe' = [seen EXCEPT !.pc = "log", !.res = NoFetchRes]
            ELSE pipe' = [seen EXCEPT !.attempt = pipe.attempt + 1,
                                      !.slept = BackoffDelay(pipe.attempt)]
  /\ UNCHANGED << now, calls, burnRes, burnt, issueRes, ledger, bulk, eval, link, listRes,
                  resend, dup, scan >>

\* appendJsonl rewriting the file with the new line (fs.writeFileSync)
appendJsonlRewrites(log, obj) == << obj >>

\* appendJsonl: fs.appendFileSync of one line
appendJsonl(log, obj) == Append(log, obj)

\* PipelineLog writing no record for a failed recipient
PipelineLogSkipsFailures ==
  /\ pipe.pc = "log"
  /\ LET row == pipe.pending[pipe.i]
         success == pipe.res.ok /\ pipe.res.jsonOk
     IN  ledger' = IF success
                   THEN appendJsonl(ledger,
                          [ok |-> TRUE, email |-> row.email, ticketId |-> pipe.res.ticketId,
                           emailResult |-> pipe.res.emailResult])
                   ELSE ledger
  /\ pipe' = [pipe EXCEPT !.pc = IF pipe.i = pipe.limit THEN "off" ELSE "send",
                          !.exitCode = IF pipe.i = pipe.limit THEN 0 ELSE -1,
                          !.i = pipe.i + 1, !.attempt = 1, !.res = NoFetchRes,
                          !.last = -1, !.slept = 0]
  /\ UNCHANGED << tickets, now, calls, burnRes, burnt, issueRes, bulk, eval, link, listRes,
                  resend, dup, scan >>

\* PipelineLog ending the run after the record of a failed recipient
PipelineLogStopsOnFailure ==
  /\ pipe.pc = "log"
  /\ LET row == pipe.pending[pipe.i]
         success == pipe.res.ok /\ pipe.res.jsonOk
         done == pipe.i = pipe.limit \/ ~success
     IN  /\ ledger' = appendJsonl(ledger,
                        [ok |-> success, email |-> row.email,
                         ticketId |-> IF success THEN pipe.res.ticketId ELSE 0,
                         emailResult |-> IF success THEN pipe.res.emailResult ELSE Null])
         /\ pipe' = [pipe EXCEPT !.pc = IF done THEN "off" ELSE "send",
                                 !.exitCode = IF done THEN 0 ELSE -1,
                                 !.i = pipe.i + 1, !.attempt = 1, !.res = NoFetchRes,
                                 !.last = -1, !.slept = 0]
  /\ UNCHANGED << tickets, now, calls, burnRes, burnt, issueRes, bulk, eval, link, listRes,
                  resend, dup, scan >>

\* appendJsonl of the row's outcome, then the next row (of a record the
\* model keeps ok, email, ticketId and emailResult)
PipelineLog ==
  /\ pipe.pc = "log"
  /\ LET row == pipe.pending[pipe.i]
         success == pipe.res.ok /\ pipe.res.jsonOk
     IN  ledger' = appendJsonl(ledger,
                     [ok |-> success, email |-> row.email,
                      ticketId |-> IF success THEN pipe.res.ticketId ELSE 0,
                      emailResult |-> IF success THEN pipe.res.emailResult ELSE Null])
  /\ pipe' = [pipe EXCEPT !.pc = IF pipe.i = pipe.limit THEN "off" ELSE "send",
                          !.exitCode = IF pipe.i = pipe.limit THEN 0 ELSE -1,
                          !.i = pipe.i + 1, !.attempt = 1, !.res = NoFetchRes,
                          !.last = -1, !.slept = 0]
  /\ UNCHANGED << tickets, now, calls, burnRes, burnt, issueRes, bulk, eval, link, listRes,
                  resend, dup, scan >>

\* the pipeline process is killed inside appendJsonl, the beginning of the
\* record written
PipelineCrashInAppend ==
  /\ pipe.pc = "log"
  /\ ledger' = Append(ledger, [partial |-> TRUE])
  /\ pipe' = [pipe EXCEPT !.pc = "off"]
  /\ UNCHANGED << tickets, now, calls, burnRes, burnt, issueRes, bulk, eval, link, listRes,
                  resend, dup, scan >>

\* the pipeline process is killed
PipelineCrash ==
  /\ pipe.pc \in {"send", "log"}
  /\ pipe' = [pipe EXCEPT !.pc = "off"]
  /\ UNCHANGED << tickets, now, calls, burnRes, burnt, issueRes, ledger, bulk, eval, link, listRes,
                  resend, dup, scan >>

\* ------------------------------------------------------------ bulk-issue
\* String.prototype.trim on the texts of Source
trim(x) ==
  CASE x = " A@B.is" -> "A@B.is"
    [] OTHER -> x

\* pickEmail: the first non-empty email column, trimmed
pickEmail(row) == trim(row.email)

\* String.prototype.toLowerCase on one word
toLowerCase(w) == lowerWord(w)

\* normalizeTypeName: trim and lower-case, on the words of a text
normalizeTypeNameWords(ws) == Join([n \in DOMAIN ws |-> toLowerCase(ws[n])])

\* normalizeTypeName: trim and lower-case
normalizeTypeName(x) == normalizeTypeNameWords(Words(x))

\* isYes of bulk-issue
isYes(v) == stripDiacriticsLower(v) \in {"ja", "yes", "true", "1"}

\* typeMap: the normalized names of the types of the service
typeMap(key) ==
  CASE key = "matur + ball" -> "tt1"
    [] key = "bara ball" -> "tt2"
    [] OTHER -> ""

synonymToCanonical(key) ==
  CASE key \in {"mat og ball", "matur og ball"} -> "matur + ball"
    [] key \in {"ball", "bara ball"} -> "bara ball"
    [] OTHER -> ""

\* resolveTicketTypeId from the normalized type name
resolveTicketTypeKey(key) ==
  LET direct == typeMap(key)
      canonical == synonymToCanonical(key)
  IN  IF direct # "" THEN direct
      ELSE IF canonical # "" THEN typeMap(normalizeTypeName(canonical))
      ELSE ""

resolveTicketTypeId(typeNameRaw) == resolveTicketTypeKey(normalizeTypeName(typeNameRaw))

\* results holds, for every answered call of the run, what the response said
\* and how the row was counted; exitCode is -1 while the process runs and
\* when it was ended by a throw
BulkOff ==
  [pc |-> "off", runs |-> 0, dryRun |-> FALSE, i |-> 1, called |-> << >>,
   results |-> << >>, exitCode |-> -1]

\* okCount / failCount of an answered call: the row counts as ok only when the
\* response is ok and its email sub-result, if any, is ok
BulkCounted(r) ==
  IF ~(r.http >= 200 /\ r.http <= 299) \/ ~r.ok THEN "fail"
  ELSE IF r.email # Null /\ ~r.email[1].ok THEN "fail"
  ELSE "ok"

\* main of bulk-issue up to its loop over the rows
BulkStart(dryRun) ==
  /\ bulk.pc = "off"
  /\ bulk.runs < MaxRuns
  /\ bulk' = [pc |-> "run", runs |-> bulk.runs + 1, dryRun |-> dryRun,
              i |-> 1, called |-> << >>, results |-> << >>, exitCode |-> -1]
  /\ UNCHANGED << tickets, now, calls, burnRes, burnt, issueRes, ledger, pipe, eval, link, listRes,
                  resend, dup, scan >>

\* one iteration of the loop of bulk-issue; a fetch that throws ends the
\* process through main().catch
BulkRow(outcome) ==
  /\ bulk.pc = "run"
  /\ LET row == Source[bulk.i]
         email == pickEmail(row)
         ticketTypeId == resolveTicketTypeId(row.choice)
         calling == isYes(row.paid) /\ ticketTypeId # "" /\ email # "" /\ ~bulk.dryRun
         handled == outcome \in {"answered", "answeredNoMail", "lostResponse"}
         threw == outcome \in {"lostResponse", "notDelivered"}
         mail == IF outcome = "answeredNoMail" THEN "sendFails" ELSE "sent"
         post == IssuePOST(tickets, ISSUE_API_KEY, ticketTypeId, email, FALSE, TRUE, mail, now)
         r == IF outcome \in {"status429", "status503"}
              THEN IssueFailure(IF outcome = "status429" THEN 429 ELSE 503, tickets, FALSE)
              ELSE post
         result == [ok |-> r.http >= 200 /\ r.http <= 299 /\ r.ok,
                    emailResult |-> r.email, counted |-> BulkCounted(r)]
         ended(b) ==
           IF b.pc = "off"
           THEN [b EXCEPT !.exitCode =
                   IF \E n \in DOMAIN b.results : b.results[n].counted = "fail"
                   THEN 1 ELSE 0]
           ELSE b
         next == [bulk EXCEPT !.i = bulk.i + 1,
                              !.pc = IF bulk.i = Len(Source) THEN "off" ELSE "run"]
     IN  IF ~calling
         THEN bulk' = ended(next) /\ tickets' = tickets
         ELSE /\ tickets' = IF handled THEN r.tickets ELSE tickets
              /\ bulk' = IF threw
                         THEN [bulk EXCEPT !.pc = "off",
                                           !.called = Append(bulk.called, email)]
                         ELSE ended([next EXCEPT
                                !.called = Append(bulk.called, email),
                                !.results = Append(bulk.results, result)])
  /\ UNCHANGED << now, calls, burnRes, burnt, issueRes, ledger, pipe, eval, link, listRes,
                  resend, dup, scan >>

\* ---------------------------------------------------- issue-link-only-db
LinkOff ==
  [pc |-> "off", runs |-> 0, exitCode |-> -1, conn |-> "none",
   typeName |-> "", email |-> "", ticketTypeId |-> ""]

\* main of issue-link-only-db up to client.connect(); a missing --email ends
\* the process with code 2 before a client exists
LinkStart(typeName, email) ==
  /\ link.pc = "off"
  /\ link.runs < MaxRuns
  /\ link' = IF email = ""
             THEN [LinkOff EXCEPT !.runs = link.runs + 1, !.exitCode = 2]
             ELSE [LinkOff EXCEPT !.runs = link.runs + 1, !.pc = "query",
                                  !.conn = "open", !.typeName = typeName,
                                  !.email = email]
  /\ UNCHANGED << tickets, now, calls, burnRes, burnt, issueRes, ledger, pipe, bulk, eval, listRes,
                  resend, dup, scan >>

\* select id from ticket_types where lower(name) = lower($1).  A query that
\* throws leaves through the finally block and main().catch; an unknown type
\* name calls process.exit(2) inside the try block, which ends the process
\* without running the finally block.
LinkQuery(storeError) ==
  /\ link.pc = "query"
  /\ LET ticketTypeId == typeMap(normalizeTypeName(link.typeName))
     IN  link' = IF storeError
                 THEN [link EXCEPT !.pc = "off", !.exitCode = 1, !.conn = "closed"]
                 ELSE IF ticketTypeId = ""
                 THEN [link EXCEPT !.pc = "off", !.exitCode = 2]
                 ELSE [link EXCEPT !.pc = "insert", !.ticketTypeId = ticketTypeId]
  /\ UNCHANGED << tickets, now, calls, burnRes, burnt, issueRes, ledger, pipe, bulk, eval, listRes,
                  resend, dup, scan >>

\* the insert, the finally block and the mail; a throwing sendMail ends the
\* process through main().catch
LinkInsert(mailOk) ==
  /\ link.pc = "insert"
  /\ Len(tickets) < MaxTickets
  /\ tickets' = InsertTicket(tickets, link.ticketTypeId, link.email, now)
  /\ link' = [link EXCEPT !.pc = "off", !.conn = "closed",
                          !.exitCode = IF mailOk THEN 0 ELSE 1]
  /\ UNCHANGED << now, calls, burnRes, burnt, issueRes, ledger, pipe, bulk, eval, listRes,
                  resend, dup, scan >>

\* ---------------------------------------------------- ticket type texts
\* words a ticket type text is made of
TypeWords == {"Matur", "mat", "og", "ball", "Bara", "takk", "handball"}

RECURSIVE TextsUpTo(_)
\* the texts of at most n words
TextsUpTo(n) ==
  IF n = 0 THEN {<< >>}
  ELSE LET shorter == TextsUpTo(n - 1)
       IN  shorter \cup { Append(t, w) : t \in shorter, w \in TypeWords }

Texts == TextsUpTo(MaxWords)

\* /\bword\b/.test(key)
hasWord(key, word) == \E n \in DOMAIN key : key[n] = word

\* isFoodAndBallTicketType of the issue route
isFoodAndBallTicketType(key) ==
  hasWord(key, "ball") /\ (hasWord(key, "matur") \/ hasWord(key, "mat"))

\* isJustBallTicketType of the issue route
isJustBallTicketType(key) ==
  key = << "ball" >> \/ (hasWord(key, "bara") /\ hasWord(key, "ball"))

\* the start time formatSubjectStart puts in the subject line
subjectTime(ticketType) ==
  LET key == lowerWords(ticketType)
  IN  IF isFoodAndBallTicketType(key) THEN "18:30"
      ELSE IF isJustBallTicketType(key) THEN "21:00"
      ELSE "startsAt"

NoEval == [fn |-> "", input |-> << >>, done |-> FALSE, out |-> << >>]

\* the three resolutions of one type text: the type the send pipeline asks
\* for, the type bulk-issue asks for, the start time of the issue route
ResolveType ==
  /\ eval.fn = "type" /\ ~eval.done
  /\ eval' = [eval EXCEPT
       !.done = TRUE,
       !.out = [send |-> typeIdByName(wantedTypeName(lowerWords(eval.input))),
                bulk |-> resolveTicketTypeKey(normalizeTypeNameWords(eval.input)),
                subject |-> subjectTime(eval.input)]]
  /\ UNCHANGED << tickets, now, calls, burnRes, burnt, issueRes, ledger, pipe, bulk, link, listRes,
                  resend, dup, scan >>

\* ----------------------------------------------------------- extractUuid
\* A text is a sequence of pieces.  "t1" is a canonical ticket token, "T1" the
\* same in upper case, "t1enc" with its dashes percent-encoded (%2D),
\* "t1dash" with en dashes for its dashes, "t1fw" in fullwidth digits, "t1a"
\* and "t1b" its two halves; " " is whitespace, "zw" a zero-width character,
\* "%20" and "%zw" their percent-encodings, "%" a percent sign that starts no
\* escape, "x" a word of other text.
Pieces ==
  {"t1", "T1", "t1enc", "t1dash", "t1fw", "t1a", "t1b",
   " ", "zw", "%20", "%zw", "%", "x"}

RECURSIVE PiecesUpTo(_)
PiecesUpTo(n) ==
  IF n = 0 THEN {<< >>}
  ELSE LET shorter == PiecesUpTo(n - 1)
       IN  shorter \cup { Append(t, v) : t \in shorter, v \in Pieces }

RawTexts == PiecesUpTo(MaxPieces)

RECURSIVE Without(_, _)
\* s.replace(/[set]+/g, "")
Without(s, set) ==
  IF s = << >> THEN << >>
  ELSE IF s[1] \in set THEN Without(Tail(s), set)
  ELSE << s[1] >> \o Without(Tail(s), set)

\* decodeURIComponent that decodes nothing
decodeURIComponentNone(s) == s

\* decodeURIComponent inside try/catch: a malformed escape throws and leaves
\* the text as it was
decodeURIComponent(s) ==
  IF \E n \in DOMAIN s : s[n] = "%" THEN s
  ELSE [n \in DOMAIN s |->
         CASE s[n] = "%20" -> " "
           [] s[n] = "%zw" -> "zw"
           [] s[n] = "t1enc" -> "t1"
           [] OTHER -> s[n]]

\* String.prototype.normalize("NFKC")
normalizeNFKC(s) == [n \in DOMAIN s |-> IF s[n] = "t1fw" THEN "t1" ELSE s[n]]

\* the dash and minus characters replaced by "-"
replaceDashes(s) == [n \in DOMAIN s |-> IF s[n] = "t1dash" THEN "t1" ELSE s[n]]

RECURSIVE matchUuid(_)
\* the first match of the token pattern, in lower case; Null without a match
matchUuid(s) ==
  IF s = << >> THEN Null
  ELSE IF s[1] \in {"t1", "T1"} THEN Some("t1")
  ELSE IF Len(s) >= 2 /\ s[1] = "t1a" /\ s[2] = "t1b" THEN Some("t1")
  ELSE matchUuid(Tail(s))

extractUuid(raw) ==
  LET decoded == decodeURIComponent(raw)
      normalized == normalizeNFKC(decoded)
      noSpace == Without(normalized, {" "})
      dashed == replaceDashes(noSpace)
      visible == Without(dashed, {"zw"})
  IN  matchUuid(visible)

\* extractUuid applied to a text and, when it returned a token, to that token
ExtractToken ==
  /\ eval.fn = "uuid" /\ ~eval.done
  /\ LET token == extractUuid(eval.input)
     IN  eval' = [eval EXCEPT
           !.done = TRUE,
           !.out = [token |-> token,
                    again |-> IF token = Null THEN Null
                              ELSE extractUuid(<< token[1] >>)]]
  /\ UNCHANGED << tickets, now, calls, burnRes, burnt, issueRes, ledger, pipe, bulk, link, listRes,
                  resend, dup, scan >>

\* -------------------------------------------------------- resend-from-log
\* the send log the script reads (--in): two issued recipients, a failure
\* record (it has no ticketUrl) and a line cut off by a crash
SendLog ==
  << [ok |-> TRUE, email |-> "a@b.is", ticketUrl |-> "u1"],
     [ok |-> FALSE, email |-> "c@d.is"],
     [partial |-> TRUE],
     [ok |-> TRUE, email |-> "C@D.is", ticketUrl |-> "u2"] >>

\* String.prototype.toLowerCase on an email address
emailKeyOf(e) ==
  CASE e = "C@D.is" -> "c@d.is"
    [] e = "A@B.is" -> "a@b.is"
    [] OTHER -> e

\* readJsonl: the objects of the lines that parse
readJsonl(log) == SelectSeq(log, LAMBDA line : JSONparse(line) # Null)

\* r && r.ok === true && r.email && r.ticketUrl
isOkRow(r) ==
  /\ truthyOk(r) /\ truthyEmail(r)
  /\ "ticketUrl" \in DOMAIN r /\ r.ticketUrl # ""

\* Resume: the emails of the ok records of the output log
alreadyResent(out) ==
  LET recs == readJsonl(out)
  IN  { emailKeyOf(recs[n].email) :
          n \in { m \in DOMAIN recs : truthyOk(recs[m]) /\ truthyEmail(recs[m]) } }

ResendOff ==
  [pc |-> "off", runs |-> 0, dryRun |-> FALSE, only |-> {}, rows |-> << >>,
   already |-> {}, i |-> 1, out |-> << >>, mailed |-> {}, skipped |-> {},
   attempted |-> 0]

\* main up to the loop, with the mail settings present.  History kept with
\* the process: mailed, the addresses sendMail accepted a message for in any
\* run; skipped, the addresses this run passed over as already resent.
ResendStart(dryRun, only) ==
  /\ resend.pc = "off"
  /\ resend.runs < MaxRuns
  /\ LET rows == SelectSeq(readJsonl(SendLog), isOkRow)
     IN  resend' = [resend EXCEPT
           !.pc = IF rows = << >> THEN "off" ELSE "loop",
           !.runs = resend.runs + 1,
           !.dryRun = dryRun, !.only = only, !.rows = rows,
           !.already = alreadyResent(resend.out),
           !.i = 1, !.skipped = {}, !.attempted = 0]
  /\ UNCHANGED << tickets, now, calls, burnRes, burnt, issueRes, ledger, pipe, bulk, eval,
                  link, listRes, dup, scan >>

\* one iteration of the loop over rows; mailOk is whether sendMail resolves
ResendRow(mailOk) ==
  /\ resend.pc = "loop"
  /\ LET r == resend.rows[resend.i]
         emailKey == emailKeyOf(r.email)
         isAlready == emailKey \in resend.already
         passed == isAlready \/ (resend.only # {} /\ emailKey \notin resend.only)
         line == IF resend.dryRun
                 THEN [ok |-> TRUE, dryRun |-> TRUE, email |-> r.email, ticketUrl |-> r.ticketUrl]
                 ELSE [ok |-> mailOk, email |-> r.email, ticketUrl |-> r.ticketUrl]
     IN  resend' = [resend EXCEPT
           !.pc = IF resend.i = Len(resend.rows) THEN "off" ELSE "loop",
           !.i = resend.i + 1,
           !.skipped = IF isAlready THEN resend.skipped \cup {emailKey} ELSE resend.skipped,
           !.attempted = IF passed THEN resend.attempted ELSE resend.attempted + 1,
           !.out = IF passed THEN resend.out ELSE Append(resend.out, line),
           !.mailed = IF ~passed /\ ~resend.dryRun /\ mailOk
                      THEN resend.mailed \cup {emailKey} ELSE resend.mailed]
  /\ UNCHANGED << tickets, now, calls, burnRes, burnt, issueRes, ledger, pipe, bulk, eval,
                  link, listRes, dup, scan >>

\* --------------------------------------------------------- burn-duplicates
\* A ticket id is the index of its row; as the value of --keep, 0 is the
\* option not given.
DupOff ==
  [pc |-> "off", runs |-> 0, exitCode |-> -1, email |-> "", keep |-> 0,
   keepLatest |-> FALSE, dryRun |-> FALSE, unused |-> {}, keepId |-> 0,
   toBurn |-> {}, outcome |-> "", burned |-> 0]

RECURSIVE ticketIdsOf(_)
\* the ids of a set of rows as the ticketIds array of a request
ticketIdsOf(ids) ==
  IF ids = {} THEN << >>
  ELSE LET id == CHOOSE i \in ids : \A j \in ids : i <= j
       IN  << id >> \o ticketIdsOf(ids \ {id})

\* unused[0] after the sort by issued_at, newest first: a row no other row
\* is newer than (rows issued at the same time come in the order of the list)
latestOf(tk, unused) ==
  { i \in unused : \A j \in unused : tk[j].issued_at <= tk[i].issued_at }

\* main without --keep and without --keep-latest: exit 2 before any request
DupUsage ==
  /\ dup.pc = "off"
  /\ dup.runs < MaxRuns
  /\ dup' = [DupOff EXCEPT !.runs = dup.runs + 1, !.exitCode = 2, !.outcome = "usage"]
  /\ UNCHANGED << tickets, now, calls, burnRes, burnt, issueRes, ledger, pipe, bulk, eval,
                  link, listRes, resend, scan >>

\* main for one --email, up to the burn request: the list request, the
\* unused rows, keepId and toBurn
DupList(email, keep, keepLatest, dryRun) ==
  /\ dup.pc = "off"
  /\ dup.runs < MaxRuns
  /\ keep # 0 \/ keepLatest
  /\ ByEmailPOST(ProcessEnv, ISSUE_API_KEY, email)
  /\ LET rows == listRes'.rows
         unused == { i \in rows : ~tickets[i].used }
         run == [DupOff EXCEPT !.runs = dup.runs + 1, !.email = email, !.keep = keep,
                               !.keepLatest = keepLatest, !.dryRun = dryRun]
     IN  IF ~listRes'.ok
         THEN dup' = [run EXCEPT !.exitCode = 0, !.outcome = "listFailed"]
         ELSE IF Cardinality(unused) <= 1
         THEN dup' = [run EXCEPT !.exitCode = 0, !.unused = unused, !.outcome = "nothing"]
         ELSE \E keepId \in (IF keep # 0 THEN {keep} ELSE latestOf(tickets, unused)) :
                dup' = [run EXCEPT
                  !.pc = IF dryRun THEN "off" ELSE "burn",
                  !.exitCode = IF dryRun THEN 0 ELSE -1,
                  !.unused = unused, !.keepId = keepId,
                  !.toBurn = unused \ {keepId},
                  !.outcome = IF dryRun THEN "dryRun" ELSE ""]

\* the burn request for toBurn and the end of the run
DupBurn ==
  /\ dup.pc = "burn"
  /\ BurnPOST(ProcessEnv, ISSUE_API_KEY, ticketIdsOf(dup.toBurn))
  /\ dup' = [dup EXCEPT !.pc = "off", !.exitCode = 0,
                        !.outcome = IF burnRes'.ok THEN "burned" ELSE "burnFailed",
                        !.burned = burnRes'.burned]

\* --------------------------------------------------------------- scan page
\* The page after mount: busyRef and the busy state, the validate requests
\* sent and not yet settled (inFlight), the timers of the finally block not
\* yet fired (timers), lastSeenRef, status and history (the scanned_status of
\* its items, newest first).  History kept with the page: calls, the calls
\* of validateTicket so far; dropped, those that returned at the busy check.
ScanOff ==
  [scannerKey |-> "s1", busyRef |-> FALSE, busy |-> FALSE, inFlight |-> 0,
   timers |-> 0, lastSeen |-> "", status |-> "", history |-> << >>,
   calls |-> 0, dropped |-> 0]

\* String.prototype.trim on the texts given to the page
trimId(x) == IF x = " " THEN "" ELSE x

\* [item, ...h].slice(0, 25)
pushHistory(h, item) == SubSeq(<< item >> \o h, 1, IF Len(h) + 1 < 25 THEN Len(h) + 1 ELSE 25)

\* validateTicket without the busy check
validateTicketUnguarded(sc, ticketId) ==
  LET id == trimId(ticketId)
      called == [sc EXCEPT !.calls = sc.calls + 1]
  IN  IF id = "" THEN called
      ELSE IF sc.scannerKey = ""
      THEN [called EXCEPT !.busyRef = TRUE, !.busy = TRUE, !.status = "ERROR",
                          !.history = pushHistory(sc.history, "ERROR"),
                          !.timers = sc.timers + 1]
      ELSE [called EXCEPT !.busyRef = TRUE, !.busy = TRUE, !.inFlight = sc.inFlight + 1]

\* validateTicket up to its first await: the empty id, the busy check, the
\* busy flag set, then either the throw for a missing scanner key (catch and
\* finally follow at once) or the request sent
validateTicket(sc, ticketId) ==
  LET id == trimId(ticketId)
      called == [sc EXCEPT !.calls = sc.calls + 1]
  IN  IF id = "" THEN called
      ELSE IF sc.busyRef THEN [called EXCEPT !.dropped = sc.dropped + 1]
      ELSE IF sc.scannerKey = ""
      THEN [called EXCEPT !.busyRef = TRUE, !.busy = TRUE, !.status = "ERROR",
                          !.history = pushHistory(sc.history, "ERROR"),
                          !.timers = sc.timers + 1]
      ELSE [called EXCEPT !.busyRef = TRUE, !.busy = TRUE, !.inFlight = sc.inFlight + 1]

\* the callback of decodeFromVideoDevice with a result; recent is whether the
\* same id was seen less than 1500 ms ago
ScanDecoded(id, recent) ==
  /\ scan.calls < MaxScans
  /\ ~(scan.lastSeen = id /\ recent)
  /\ scan' = validateTicket([scan EXCEPT !.lastSeen = id], id)
  /\ UNCHANGED << tickets, now, calls, burnRes, burnt, issueRes, ledger, pipe, bulk, eval,
                  link, listRes, resend, dup >>

\* the manual check of the text typed into the page
ScanManual(text) ==
  /\ scan.calls < MaxScans
  /\ scan' = validateTicket(scan, text)
  /\ UNCHANGED << tickets, now, calls, burnRes, burnt, issueRes, ledger, pipe, bulk, eval,
                  link, listRes, resend, dup >>

\* what a request in flight ends with: a response with one of the three
\* statuses, a response with ok false, or a rejection (fetch or res.json)
ScanOutcomes == {"VALID", "ALREADY_USED", "NOT_FOUND", "ERROR", "throws"}

\* validateTicket from the response on: status and history set in the try
\* block or in catch, the timer of finally started
ScanSettle(outcome) ==
  /\ scan.inFlight > 0
  /\ LET item == IF outcome = "throws" THEN "ERROR" ELSE outcome
     IN  scan' = [scan EXCEPT !.inFlight = scan.inFlight - 1,
                              !.status = item,
                              !.history = pushHistory(scan.history, item),
                              !.timers = scan.timers + 1]
  /\ UNCHANGED << tickets, now, calls, burnRes, burnt, issueRes, ledger, pipe, bulk, eval,
                  link, listRes, resend, dup >>

\* the timer of finally fires, 250 ms after the request settled
ScanTimer ==
  /\ scan.timers > 0
  /\ scan' = [scan EXCEPT !.timers = scan.timers - 1, !.busyRef = FALSE, !.busy = FALSE]
  /\ UNCHANGED << tickets, now, calls, burnRes, burnt, issueRes, ledger, pipe, bulk, eval,
                  link, listRes, resend, dup >>

\* ---------------------------------------------------------- specification
NoIssueRes ==
  [http |-> 0, ok |-> FALSE, ticketId |-> 0, email |-> Null, inserted |-> FALSE,
   delivery |-> "none", to |-> "", bearer |-> "", ticketTypeId |-> "",
   conn |-> "none"]
NoBurnRes ==
  [http |-> 0, ok |-> FALSE, burned |-> 0, input |-> << >>, bearer |-> "",
   requiredKey |-> "", conn |-> "none"]
PipeOff ==
  [pc |-> "off", exitCode |-> -1, runs |-> 0, dryRun |-> FALSE, issueApiKey |-> "",
   pending |-> << >>, limit |-> 0,
   i |-> 1, attempt |-> 1, res |-> NoFetchRes, t0 |-> 0, l0 |-> 0,
   prev |-> [created |-> 0, okRecords |-> 0, planned |-> 0],
   called |-> << >>, last |-> -1, slept |-> 0]

InitStore ==
  /\ tickets = << >>
  /\ now = 0
  /\ calls = [c \in Calls |-> IdleCall]
  /\ burnRes = NoBurnRes
  /\ burnt = {}
  /\ issueRes = NoIssueRes
  /\ ledger = << >>
  /\ pipe = PipeOff
  /\ bulk = BulkOff
  /\ link = LinkOff
  /\ listRes = NoListRes
  /\ resend = ResendOff
  /\ dup = DupOff
  /\ scan = ScanOff

Init == InitStore /\ eval = NoEval

Next ==
  \/ \E tt \in {"tt1", "tt2"} : Issue("ik", tt, "a@b.is", TRUE, TRUE, "sent")
  \/ \E c \in Calls, b \in Bearers, t \in ScanTokens : ValidateBegin(c, b, t)
  \/ \E c \in Calls : ValidateUpdate(c)
  \/ \E c \in Calls : ValidateLoad(c)
  \/ \E i \in DOMAIN tickets : Burn("ik", << i >>)
  \/ Tick

Spec == Init /\ [][Next]_vars

NextPipeline ==
  \/ \E d \in BOOLEAN, k \in {"ik", "bad"} : PipelineStart(d, k)
  \/ \E o \in Outcomes : PipelineAttempt(o)
  \/ PipelineLog
  \/ PipelineCrash

SpecPipeline == Init /\ [][NextPipeline]_vars

\* runs of the pipeline that are not killed, each started attempt of the
\* issue call eventually completing (fetch resolves or rejects)
NextRetry ==
  \/ \E k \in {"ik", "bad"} : PipelineStart(FALSE, k)
  \/ \E o \in Outcomes : PipelineAttempt(o)
  \/ PipelineLog

SpecRetry ==
  Init /\ [][NextRetry]_vars /\ WF_vars(\E o \in Outcomes : PipelineAttempt(o))

\* requests to the issue endpoint alone, over every kind of request and
\* every outcome of QR generation and of delivery
NextIssue ==
  \/ \E b \in {"", "ik", "bad"}, tt \in {"", "tt1", "tt2", "ttx"},
        e \in {"", "a@b.is", "c@d.is"}, linkOnly \in BOOLEAN, qrOk \in BOOLEAN,
        mail \in Mails : Issue(b, tt, e, linkOnly, qrOk, mail)
  \/ Tick

SpecIssue == Init /\ [][NextIssue]_vars

NextBulk ==
  \/ \E d \in BOOLEAN : BulkStart(d)
  \/ \E o \in Outcomes \cup MailOutcomes : BulkRow(o)

SpecBulk == Init /\ [][NextBulk]_vars

\* type resolution applied to every text of at most MaxWords words
InitTypes ==
  /\ InitStore
  /\ eval \in { [fn |-> "type", input |-> t, done |-> FALSE, out |-> << >>] : t \in Texts }

NextTypes == ResolveType

SpecTypes == InitTypes /\ [][NextTypes]_vars

RECURSIVE TokensUpTo(_)
\* the ticketIds arrays of at most n entries: tickets, a uuid of no ticket, a
\* string that is no uuid
TokensUpTo(n) ==
  IF n = 0 THEN {<< >>}
  ELSE LET shorter == TokensUpTo(n - 1)
       IN  shorter \cup { Append(t, v) : t \in shorter, v \in (1 .. NoTicket) \cup {-1} }

BurnInputs == TokensUpTo(MaxIds)

\* burn requests with the admin key over every array of ticketIds, on
\* tickets that are unused, redeemed by a scanner or burned
NextBurn ==
  \/ Issue("ik", "tt1", "a@b.is", TRUE, TRUE, "sent")
  \/ \E t \in DOMAIN tickets : ValidateBegin(1, "s1", t)
  \/ ValidateUpdate(1)
  \/ ValidateLoad(1)
  \/ \E input \in BurnInputs : Burn("ik", input)

SpecBurn == Init /\ [][NextBurn]_vars

\* the admin routes in every environment, with every kind of bearer
NextAdmin ==
  \/ \E e \in {"a@b.is", "c@d.is"} : Issue("ik", "tt1", e, TRUE, TRUE, "sent")
  \/ \E env \in AdminEnvs, b \in {"", "bad", "ik", "ak"}, input \in TokensUpTo(1) :
        BurnPOST(env, b, input) /\ UNCHANGED dup
  \/ \E env \in AdminEnvs, b \in {"", "bad", "ik", "ak"}, e \in {"", "A@B.is"} :
        ByEmailPOST(env, b, e) /\ UNCHANGED dup

SpecAdmin == Init /\ [][NextAdmin]_vars

\* extractUuid applied to every text of at most MaxPieces pieces
InitToken ==
  /\ InitStore
  /\ eval \in { [fn |-> "uuid", input |-> t, done |-> FALSE, out |-> << >>] : t \in RawTexts }

NextToken == ExtractToken

SpecToken == InitToken /\ [][NextToken]_vars

\* what opens store connections: validate requests, issue requests and the
\* issue-link-only-db script
NextConn ==
  \/ \E c \in Calls, b \in {"", "s1", "sx"}, t \in ScanTokens : ValidateBegin(c, b, t)
  \/ \E c \in Calls : ValidateUpdate(c)
  \/ \E c \in Calls : ValidateLoad(c)
  \/ \E b \in {"ik", "bad"}, tt \in {"", "tt1", "ttx"} :
        Issue(b, tt, "a@b.is", TRUE, TRUE, "sent")
  \/ \E n \in {"Matur + ball", "VIP"}, e \in {"", "a@b.is"} : LinkStart(n, e)
  \/ \E storeError \in BOOLEAN : LinkQuery(storeError)
  \/ \E mailOk \in BOOLEAN : LinkInsert(mailOk)

SpecConn == Init /\ [][NextConn]_vars

\* real runs of send-paid-link-tickets, with and without --max, against a
\* service whose sendMail may fail; the process is not killed, every started
\* attempt completes and every append returns
NextMail ==
  \/ \E max \in 0 .. MaxLimit, k \in {"ik", "bad"} : PipelineMain(max, FALSE, k)
  \/ \E o \in MailOutcomes \cup {"status503", "notDelivered"} : PipelineAttempt(o)
  \/ PipelineLog

SpecMail ==
  /\ Init /\ [][NextMail]_vars
  /\ WF_vars(\E o \in MailOutcomes \cup {"status503", "notDelivered"} : PipelineAttempt(o))
  /\ WF_vars(PipelineLog)

\* both scripts, run against the same service in any interleaving
NextScripts ==
  \/ \E d \in BOOLEAN : PipelineStart(d, "ik")
  \/ \E o \in {"answered", "status503"} : PipelineAttempt(o)
  \/ PipelineLog
  \/ \E d \in BOOLEAN : BulkStart(d)
  \/ \E o \in {"answered", "notDelivered"} : BulkRow(o)

SpecScripts == Init /\ [][NextScripts]_vars

\* runs of resend-from-log, dry and real, with and without --only
NextResend ==
  \/ \E d \in BOOLEAN, only \in {{}, {"c@d.is"}} : ResendStart(d, only)
  \/ \E mailOk \in BOOLEAN : ResendRow(mailOk)

SpecResend == Init /\ [][NextResend]_vars

\* runs of burn-duplicates for one email over tickets issued at two times
NextDup ==
  \/ \E e \in {"a@b.is", "A@B.is", "c@d.is"} : Issue("ik", "tt1", e, TRUE, TRUE, "sent")
  \/ Tick
  \/ DupUsage
  \/ \E e \in {"a@b.is", " A@B.is"}, keep \in 0 .. NoTicket, kl, d \in BOOLEAN :
        DupList(e, keep, kl, d)
  \/ DupBurn

SpecDup == Init /\ [][NextDup]_vars

\* lines a log file may hold when a script starts: records of successes and
\* of failures, a line cut off, a record without ok, a record without email
Lines ==
  { [ok |-> TRUE, email |-> "A@B.is"],
    [ok |-> TRUE, email |-> "c@d.is"],
    [ok |-> FALSE, email |-> "c@d.is"],
    [partial |-> TRUE],
    [email |-> "c@d.is"],
    [ok |-> TRUE] }

RECURSIVE LogsUpTo(_)
LogsUpTo(n) ==
  IF n = 0 THEN {<< >>}
  ELSE LET shorter == LogsUpTo(n - 1)
       IN  shorter \cup { Append(log, line) : log \in shorter, line \in Lines }

\* the scripts started on a log file left by earlier runs or edited by hand
InitReplay ==
  /\ tickets = << >> /\ now = 0
  /\ calls = [c \in Calls |-> IdleCall]
  /\ burnRes = NoBurnRes /\ burnt = {} /\ issueRes = NoIssueRes
  /\ pipe = PipeOff /\ bulk = BulkOff /\ link = LinkOff
  /\ listRes = NoListRes /\ dup = DupOff /\ scan = ScanOff /\ eval = NoEval
  /\ \E log \in LogsUpTo(MaxLines) :
       /\ ledger = log
       /\ resend = [ResendOff EXCEPT !.out = log]

\* the send pipeline and resend-from-log replaying their logs, one script at
\* a time, the pipeline possibly killed while it appends
NextReplay ==
  \/ \E d \in BOOLEAN : resend.pc = "off" /\ PipelineMain(0, d, "ik")
  \/ PipelineAttempt("answered")
  \/ PipelineLog
  \/ PipelineCrashInAppend
  \/ \E d \in BOOLEAN : pipe.pc = "off" /\ ResendStart(d, {})
  \/ ResendRow(TRUE)

SpecReplay == InitReplay /\ [][NextReplay]_vars

\* the scan page built with and without NEXT_PUBLIC_SCANNER_KEY
InitScan ==
  /\ tickets = << >> /\ now = 0
  /\ calls = [c \in Calls |-> IdleCall]
  /\ burnRes = NoBurnRes /\ burnt = {} /\ issueRes = NoIssueRes
  /\ ledger = << >> /\ pipe = PipeOff /\ bulk = BulkOff /\ link = LinkOff
  /\ listRes = NoListRes /\ resend = ResendOff /\ dup = DupOff /\ eval = NoEval
  /\ \E k \in {"", "s1"} : scan = [ScanOff EXCEPT !.scannerKey = k]

\* scans and manual checks on the page; every request settles and every
\* timer fires
NextScan ==
  \/ \E id \in {"t1", "t2"}, recent \in BOOLEAN : ScanDecoded(id, recent)
  \/ \E text \in {"", " ", "t1", "t2"} : ScanManual(text)
  \/ \E o \in ScanOutcomes : ScanSettle(o)
  \/ ScanTimer

SpecScan ==
  /\ InitScan /\ [][NextScan]_vars
  /\ WF_vars(\E o \in ScanOutcomes : ScanSettle(o))
  /\ WF_vars(ScanTimer)

\* ================================================================ claims
\* the scanner_keys row of a presented secret, and its id and event
KeyOfBearer(bearer) == CHOOSE k \in ScannerKeys : k.key_hash = Sha256(bearer)
Done == { c \in Calls : calls[c].pc = "done" }
Started == { c \in Calls : calls[c].pc # "idle" }

\* requests on ticket i that presented a key of the ticket's event which was
\* active and unexpired when it was looked up
RacersOn(i) ==
  { c \in Started :
      /\ calls[c].ticketId = i
      /\ calls[c].keyKind = "valid"
      /\ KeyOfBearer(calls[c].bearer).event_id = EventOfType(tickets[i].ticket_type_id) }

\* C1: of the validate requests racing on one ticket with active keys of its
\* event, at most one is answered VALID and every other one ALREADY_USED; once
\* all of them are answered exactly one was VALID; and, as long as no burn
\* touched the ticket, its used_at and used_by_scanner_key_id are the winner's.
C1_ExactlyOneWinner ==
  \A i \in DOMAIN tickets :
    LET racers == RacersOn(i)
        answered == racers \cap Done
        winners == { c \in answered : calls[c].res.status = "VALID" }
    IN  /\ Cardinality(winners) <= 1
        /\ i \notin burnt =>
             /\ \A c \in answered \ winners :
                  calls[c].res.http = 200 /\ calls[c].res.status = "ALREADY_USED"
             /\ (racers # {} /\ answered = racers) => Cardinality(winners) = 1
             /\ \A w \in winners :
                  /\ tickets[i].used
                  /\ tickets[i].used_by_scanner_key_id = Some(KeyOfBearer(calls[w].bearer).id)
                  /\ calls[w].res.ticket # Null
                  /\ tickets[i].used_at = calls[w].res.ticket[1].used_at
                  /\ tickets[i].used_by_scanner_key_id =
                       calls[w].res.ticket[1].used_by_scanner_key_id

\* two requests with different keys overlapped on one ticket: the one that
\* arrived second won, the first was answered ALREADY_USED
C1_Witness ==
  \E i \in DOMAIN tickets :
    /\ i \notin burnt
    /\ {1, 2} \subseteq RacersOn(i) \cap Done
    /\ calls[1].bearer # calls[2].bearer
    /\ calls[2].res.status = "VALID"
    /\ calls[1].res.status = "ALREADY_USED"

\* C2 as stated: used_at and used_by_scanner_key_id are both non-null exactly
\* when used is true.
C2_Original ==
  \A i \in DOMAIN tickets :
    (tickets[i].used_at # Null /\ tickets[i].used_by_scanner_key_id # Null)
      <=> tickets[i].used

\* C2 amended: used_at is non-null exactly when used is true, and
\* used_by_scanner_key_id is non-null only when used is true (a burned ticket
\* is used and has no scanner key).
C2_UsedFields ==
  \A i \in DOMAIN tickets :
    /\ tickets[i].used_at # Null <=> tickets[i].used
    /\ tickets[i].used_by_scanner_key_id # Null => tickets[i].used

\* one ticket redeemed by a scanner, another one burned
C2_Witness ==
  \E i, j \in DOMAIN tickets :
    /\ tickets[i].used /\ tickets[i].used_by_scanner_key_id # Null
    /\ tickets[j].used /\ tickets[j].used_by_scanner_key_id = Null
    /\ j \in burnt

\* a request whose key is valid but belongs to another event than ticket i
OutOfScope(c, i) ==
  /\ calls[c].ticketId = i
  /\ i \in DOMAIN tickets
  /\ calls[c].keyKind = "valid"
  /\ KeyOfBearer(calls[c].bearer).event_id # EventOfType(tickets[i].ticket_type_id)

\* C3: every step of a validate request whose key is scoped to another event
\* than the ticket's leaves the table unchanged, and its answer is NOT_FOUND.
C3_ScopeIsolation ==
  [][\A c \in Calls :
       (/\ calls[c].pc \in {"update", "load"}
        /\ OutOfScope(c, calls[c].ticketId)
        /\ calls'[c] # calls[c])
       => /\ tickets' = tickets
          /\ calls'[c].pc = "done" =>
               calls'[c].res = Response(200, TRUE, "NOT_FOUND", "", Null)]_vars

\* a used ticket and an unused ticket were each scanned with a key of the
\* other event and answered NOT_FOUND
C3_Witness ==
  /\ {1, 2} \subseteq Done
  /\ OutOfScope(1, calls[1].ticketId)
  /\ OutOfScope(2, calls[2].ticketId)
  /\ tickets[calls[1].ticketId].used
  /\ ~tickets[calls[2].ticketId].used
  /\ calls[1].res.status = "NOT_FOUND"
  /\ calls[2].res.status = "NOT_FOUND"

\* C4 as stated: a request with a token of no ticket is answered NOT_FOUND
\* whatever bearer it presents.
C4_Original ==
  \A c \in Done :
    (calls[c].ticketId # 0 /\ calls[c].ticketId \notin DOMAIN tickets /\ calls[c].bearer # "")
      => calls[c].res.status = "NOT_FOUND"

\* C4 amended: a request with a well formed token of no ticket is answered
\* NOT_FOUND when its bearer is an active, unexpired scanner key (of any
\* event), and 403, never NOT_FOUND, when it is not.
C4_NotFound ==
  \A c \in Done :
    (IsUuid(calls[c].ticketId) /\ calls[c].ticketId \notin DOMAIN tickets /\ calls[c].bearer # "")
      => IF calls[c].keyKind = "valid"
         THEN calls[c].res = Response(200, TRUE, "NOT_FOUND", "", Null)
         ELSE calls[c].res.http = 403 /\ calls[c].res.status # "NOT_FOUND"

\* the uuid of no ticket was scanned with a valid key and with an unknown one
C4_Witness ==
  /\ {1, 2} \subseteq Done
  /\ calls[1].ticketId = NoTicket /\ calls[2].ticketId = NoTicket
  /\ calls[1].keyKind = "valid" /\ calls[1].res.status = "NOT_FOUND"
  /\ calls[2].keyKind = "unknown" /\ calls[2].res.http = 403

\* C5: no step removes a ticket row or takes a ticket from used back to unused.
C5_UsedIsTerminal ==
  [][\A i \in DOMAIN tickets :
       /\ i \in DOMAIN tickets'
       /\ tickets[i].used => tickets'[i].used]_vars

\* a ticket that was redeemed, then burned, then scanned again is still used
C5_Witness ==
  \E i \in DOMAIN tickets, c, d \in Done :
    /\ calls[c].ticketId = i /\ calls[c].res.status = "VALID"
    /\ i \in burnt
    /\ calls[d].ticketId = i /\ calls[d].afterBurn
    /\ tickets[i].used

\* C6 as stated: a step on a ticket that is already used leaves used true and
\* turns neither used_at nor used_by_scanner_key_id into null (the only step
\* that writes a used ticket is burn).
C6_Original ==
  [][\A i \in DOMAIN tickets :
       tickets[i].used =>
         /\ tickets'[i].used
         /\ tickets[i].used_at # Null => tickets'[i].used_at # Null
         /\ tickets[i].used_by_scanner_key_id # Null =>
              tickets'[i].used_by_scanner_key_id # Null]_vars

\* C7: a validate request that arrives after its ticket was burned, with an
\* active key of the ticket's event, is answered ALREADY_USED.
C7_BurnedIsAlreadyUsed ==
  \A i \in DOMAIN tickets :
    \A c \in RacersOn(i) \cap Done :
      calls[c].afterBurn =>
        /\ calls[c].res.http = 200
        /\ calls[c].res.status = "ALREADY_USED"

\* a never redeemed ticket was burned and then scanned with a key of its event
C7_Witness ==
  \E i \in DOMAIN tickets :
    \E c \in RacersOn(i) \cap Done :
      /\ calls[c].afterBurn
      /\ \A d \in Calls : calls[d].res.status # "VALID"
      /\ calls[c].res.status = "ALREADY_USED"

\* the presented secret is no scanner key, or an inactive or expired one
BadKey(rec) == rec.bearer # "" /\ rec.keyKind \in {"unknown", "inactive", "expired"}

\* C8 as stated: a request with such a secret is answered 403.
C8_Original ==
  \A c \in Done : BadKey(calls[c]) => calls[c].res.http = 403

\* C8 amended: a request that carries a ticketId and presents such a secret is
\* answered 403 with the key query as its only store access; without a
\* ticketId it is answered 400; in both cases no ticket changes.
C8_BadKeyRejected ==
  [][\A c \in Calls :
       (calls[c].pc = "idle" /\ calls'[c].pc # "idle" /\ BadKey(calls'[c]))
       => /\ tickets' = tickets
          /\ calls'[c].pc = "done"
          /\ calls'[c].rowCount = 0
          /\ calls'[c].res.http = IF calls'[c].ticketId = 0 THEN 400 ELSE 403]_vars

\* an unused ticket was scanned with an expired key and with an inactive key:
\* both answered 403, the ticket still unused
C8_Witness ==
  \E i \in DOMAIN tickets :
    /\ {1, 2} \subseteq Done
    /\ calls[1].ticketId = i /\ calls[2].ticketId = i
    /\ {calls[1].keyKind, calls[2].keyKind} = {"expired", "inactive"}
    /\ calls[1].res.http = 403 /\ calls[2].res.http = 403
    /\ ~tickets[i].used

\* C9: two requests for the same token whose secrets are rejected (unknown,
\* inactive or expired, in any combination) get the same status and body.
C9_ConstantShape ==
  \A c, d \in Done :
    (/\ calls[c].ticketId = calls[d].ticketId
     /\ BadKey(calls[c])
     /\ BadKey(calls[d]))
    => calls[c].res = calls[d].res

\* the same ticket was scanned with an unknown secret and with an expired key
C9_Witness ==
  \E i \in DOMAIN tickets :
    /\ {1, 2} \subseteq Done
    /\ calls[1].ticketId = i /\ calls[2].ticketId = i
    /\ {calls[1].keyKind, calls[2].keyKind} = {"unknown", "expired"}
    /\ calls[1].res = calls[2].res

\* C10 as stated: over all attempts and all restarts the service creates at
\* most one ticket per recipient.
C10_Original ==
  \A i, j \in DOMAIN tickets : tickets[i].email = tickets[j].email => i = j

\* the issue calls and the log records of the current run
RunCalls == pipe.called
RunRecords == SubSeq(ledger, pipe.l0 + 1, Len(ledger))

\* C11 as stated: when the run before issued N >= 1 tickets and appended N
\* ok=true records, the next run makes no issue call and appends no record.
C11_Original ==
  (/\ pipe.runs >= 2
   /\ pipe.prev.created >= 1
   /\ pipe.prev.created = pipe.prev.okRecords)
  => RunCalls = << >> /\ RunRecords = << >>

\* C11 amended: when the run before issued N tickets and appended N ok=true
\* records, N being the number of recipients it had pending, the next run
\* over the same source and log has nothing pending, makes no issue call and
\* appends no record.
C11_SecondRunIdle ==
  (/\ pipe.runs >= 2
   /\ pipe.prev.created = pipe.prev.planned
   /\ pipe.prev.okRecords = pipe.prev.planned)
  => /\ pipe.pending = << >>
     /\ pipe.pc = "off"
     /\ RunCalls = << >>
     /\ RunRecords = << >>

\* a first run issued and logged both eligible recipients, and a second run
\* that was not a dry run has ended
C11_Witness ==
  /\ pipe.runs = 2
  /\ ~pipe.dryRun
  /\ pipe.prev.planned = 2
  /\ pipe.prev.created = 2
  /\ pipe.prev.okRecords = 2
  /\ Len(tickets) = 2
  /\ pipe.pc = "off"

\* the current run was killed before it finished its rows
Crashed == pipe.pc = "off" /\ ~pipe.dryRun /\ pipe.i <= pipe.limit

\* the recipients the service created a ticket for in the current run
RunCreated == { tickets[k].email : k \in { n \in DOMAIN tickets : n > pipe.t0 } }

\* C12 as stated: after a crash every recipient the service created a ticket
\* for in that run has an ok=true record in the log, so that a restart skips
\* the recipient.
C12_Original ==
  Crashed => RunCreated \subseteq readJsonlSet(ledger)

\* the first row of the source with the given normalized email
SourceIndex(email) ==
  CHOOSE n \in DOMAIN Source :
    /\ normalizeEmail(Source[n].email) = email
    /\ \A m \in 1..(n - 1) : normalizeEmail(Source[m].email) # email

\* the emails of the first n pending rows
PendingEmails(n) == [k \in 1..n |-> pipe.pending[k].email]

\* the calls and the records of a run follow the pending rows one by one
C13_Sequential ==
  /\ Len(RunCalls) <= Len(pipe.pending)
  /\ RunCalls = PendingEmails(Len(RunCalls))
  /\ \A m, n \in DOMAIN pipe.pending :
       m < n => SourceIndex(pipe.pending[m].email) < SourceIndex(pipe.pending[n].email)
  /\ Len(RunRecords) <= Len(RunCalls)
  /\ Len(RunCalls) <= Len(RunRecords) + 1
  /\ [k \in 1..Len(RunRecords) |-> RunRecords[k].email] = PendingEmails(Len(RunRecords))
  /\ (pipe.pc = "off" /\ ~Crashed) =>
       /\ Len(RunCalls) = Len(RunRecords)
       /\ ~pipe.dryRun => Len(RunRecords) = Len(pipe.pending)

\* a step that changes the log appends the outcome fetchJsonWithRetry
\* returned for the current row
C13_RecordsOutcome ==
  ledger' # ledger =>
    /\ pipe.pc = "log"
    /\ pipe.last = pipe.res.status
    /\ Len(ledger') = Len(ledger) + 1
    /\ SubSeq(ledger', 1, Len(ledger)) = ledger
    /\ ledger'[Len(ledger')].email = pipe.pending[pipe.i].email
    /\ ledger'[Len(ledger')].ok = (pipe.res.ok /\ pipe.res.jsonOk)
    /\ ledger'[Len(ledger')].ok => ledger'[Len(ledger')].ticketId = pipe.res.ticketId

\* C13: a run attempts its pending recipients one at a time in source order,
\* appends one record per attempted recipient carrying the result its retried
\* call returned, appends the record of a recipient before the first call for
\* the next one, and a run that is not interrupted ends with one record for
\* each pending recipient.
C13_OneRecordPerRecipient ==
  []C13_Sequential /\ [][C13_RecordsOutcome]_vars

\* an uninterrupted run with a valid key logged a failure for the first
\* recipient, after its retries were used up, and a success for the second
C13_Witness ==
  /\ pipe.pc = "off" /\ ~pipe.dryRun /\ ~Crashed
  /\ pipe.issueApiKey = "ik"
  /\ Len(pipe.pending) = 2
  /\ Len(RunRecords) = 2
  /\ ~RunRecords[1].ok
  /\ RunRecords[2].ok

\* C14: when the delivery step of an issue request fails (sendMail throws or
\* no transport is configured) the response is 200 ok:true with the id of the
\* ticket the request inserted, that row is in the table, and the email
\* sub-result is ok:false with an error.
C14_DeliveryFailureIsData ==
  issueRes.delivery \in {"sendFails", "noTransport"} =>
    /\ issueRes.inserted
    /\ issueRes.http = 200 /\ issueRes.ok
    /\ issueRes.ticketId \in DOMAIN tickets
    /\ tickets[issueRes.ticketId].email = issueRes.to
    /\ issueRes.email # Null
    /\ ~issueRes.email[1].ok
    /\ issueRes.email[1].error # ""

\* a request whose sendMail threw was answered ok:true with the id of the
\* second ticket of the table
C14_Witness ==
  /\ issueRes.delivery = "sendFails"
  /\ issueRes.ok
  /\ issueRes.ticketId = 2
  /\ Len(tickets) = 2
  /\ issueRes.email = Some([ok |-> FALSE, error |-> "sendMail failed", skipped |-> FALSE])

\* C15 as stated: a step answered ok:false (400, 401 or 500) created no
\* ticket row.
C15_Original ==
  [][(issueRes'.http \in {400, 401, 500} /\ ~issueRes'.ok) => tickets' = tickets]_vars

\* C16 as stated, for bulk-issue: a run makes issue calls for at most one row
\* per normalized email.
C16_Original ==
  \A m, n \in DOMAIN bulk.called :
    normalizeEmail(bulk.called[m]) = normalizeEmail(bulk.called[n]) => m = n

\* a status after which fetchJsonWithRetry may try again: 429, 5xx, or no
\* response at all (0, the fetch threw)
Transient(status) == status = 429 \/ status >= 500 \/ status = 0

\* the attempts of a call stay within the ceiling
C17_Ceiling == pipe.attempt >= 1 /\ pipe.attempt <= IssueMaxAttempts

\* a further attempt is made only after a transient status and below the
\* ceiling, and the attempt at the ceiling returns
C17_RetryStep ==
  /\ pipe'.attempt = pipe.attempt + 1 =>
       /\ pipe.pc = "send" /\ pipe'.pc = "send"
       /\ Transient(pipe'.last)
       /\ pipe.attempt < IssueMaxAttempts
  /\ (pipe.pc = "send" /\ pipe.attempt = IssueMaxAttempts /\ pipe' # pipe) =>
       pipe'.pc = "log"
  /\ (pipe.pc = "send" /\ pipe'.pc = "log") =>
       /\ pipe'.res.status = pipe'.last
       /\ pipe'.res.ok = (pipe'.last >= 200 /\ pipe'.last <= 299)

\* C17: a retried issue call makes at most IssueMaxAttempts (6) attempts,
\* makes a further attempt only after 429, a status >= 500 or a network
\* failure, and always ends by returning a result to the send loop.
C17_BoundedRetry ==
  /\ []C17_Ceiling
  /\ [][C17_RetryStep]_vars
  /\ (pipe.pc = "send") ~> (pipe.pc = "log")

\* a call whose six attempts all failed (the last one without any response)
\* returned the status 0 result
C17_Witness ==
  /\ pipe.pc = "log"
  /\ pipe.attempt = IssueMaxAttempts
  /\ pipe.last = 0
  /\ pipe.res = NoFetchRes
  /\ pipe.slept = 0

\* a client error other than 429
ClientError(status) == status >= 400 /\ status <= 499 /\ status # 429

\* C18: an attempt of a retried call that is answered with a client error
\* other than 429 ends the call at once: the attempt counter does not move,
\* no backoff wait is made, and the result returned to the send loop is the
\* failure result carrying that status.
C18_ClientErrorFailsAtOnce ==
  [][(pipe.pc = "send" /\ pipe' # pipe /\ ClientError(pipe'.last))
     => /\ pipe'.pc = "log"
        /\ pipe'.attempt = pipe.attempt
        /\ pipe'.slept = 0
        /\ pipe'.res = [ok |-> FALSE, status |-> pipe'.last, jsonOk |-> FALSE,
                        ticketId |-> 0, emailResult |-> Null]]_vars

\* the third attempt of a call, after two backoff waits, was answered 401
\* and the call returned that failure
C18_Witness ==
  /\ pipe.pc = "log"
  /\ pipe.attempt = 3
  /\ pipe.last = 401
  /\ pipe.res.status = 401
  /\ ~pipe.res.ok
  /\ pipe.slept = 0

\* log is a prefix of after
IsPrefix(log, after) ==
  /\ Len(log) <= Len(after)
  /\ SubSeq(after, 1, Len(log)) = log

\* C19: every step of every pipeline run leaves the records the log already
\* held in place and unchanged: the log before the step is a prefix of the log
\* after it, and a step adds at most one record.
C19_AppendOnly ==
  [][/\ IsPrefix(ledger, ledger')
     /\ Len(ledger') <= Len(ledger) + 1]_vars

\* a second run appended a record behind the records of the first run
C19_Witness ==
  /\ pipe.runs = 2
  /\ pipe.l0 >= 1
  /\ Len(ledger) > pipe.l0
  /\ ~ledger[1].ok

\* the plan of a run of send-paid-link-tickets over the source and a log
Plan(log) == filterPending(dedupe(paidRowsFrom(1), {}), readJsonlSet(log))

\* a dry run of either script has made no issue call, and that of
\* send-paid-link-tickets is stopped with the log as long as it found it
C20_DryRunState ==
  /\ pipe.dryRun =>
       /\ pipe.pc = "off"
       /\ pipe.called = << >>
       /\ Len(ledger) = pipe.l0
       /\ pipe.pending = Plan(ledger)
  /\ bulk.dryRun => bulk.called = << >>

\* the steps of a dry run of either script leave the table and the log alone
C20_DryRunStep ==
  /\ (pipe' # pipe /\ pipe'.dryRun) => (tickets' = tickets /\ ledger' = ledger)
  /\ (bulk' # bulk /\ bulk'.dryRun) => (tickets' = tickets /\ ledger' = ledger)

\* C20: a dry run computes the plan and stops: it makes no call to the issue
\* endpoint, no step of it creates a ticket or writes the log; for
\* send-paid-link-tickets the plan is the deduplicated paid rows without the
\* recipients the log records as sent.
C20_DryRunFrame ==
  []C20_DryRunState /\ [][C20_DryRunStep]_vars

\* after a run that issued and logged the first recipient only, a dry run of
\* send-paid-link-tickets planned the second one, and a dry run of bulk-issue
\* went through all rows; the table holds that one ticket
C20_Witness ==
  /\ pipe.dryRun /\ pipe.runs = 2
  /\ Len(ledger) = 2 /\ ledger[1].ok /\ ~ledger[2].ok
  /\ Len(pipe.pending) = 1
  /\ pipe.pending[1].email = "c@d.is"
  /\ bulk.dryRun /\ bulk.pc = "off" /\ bulk.i = Len(Source) + 1
  /\ Len(tickets) = 1

\* C21 as stated, for send-paid-link-tickets: a process that ended with exit
\* code 0 has no recipient of its run that ended in a failure (a failure
\* record after the retries, or after a client error).
C21_Original ==
  (pipe.pc = "off" /\ pipe.exitCode = 0) =>
    \A n \in DOMAIN RunRecords : RunRecords[n].ok

\* the normalized words of the type text under evaluation
EvalKey == lowerWords(eval.input)

\* the text names food (mat or matur) and ball, as words
FoodAndBall(key) == hasWord(key, "ball") /\ (hasWord(key, "mat") \/ hasWord(key, "matur"))

\* C22: a type text with a food word and the ball word resolves to the
\* combined type in the send pipeline and gets the combined type's start time
\* in the issue route, whatever other words it holds; no resolver takes it
\* for the dance-only type.
C22_FoodAndBallPrecedence ==
  (eval.fn = "type" /\ eval.done /\ FoodAndBall(EvalKey)) =>
    /\ eval.out.send = "tt1"
    /\ eval.out.subject = "18:30"
    /\ eval.out.bulk # "tt2"

\* the text "Bara Matur ball", with the only-qualifier in front, resolved to
\* the combined type
C22_Witness ==
  /\ eval.fn = "type" /\ eval.done
  /\ eval.input = << "Bara", "Matur", "ball" >>
  /\ eval.out.send = "tt1"
  /\ eval.out.subject = "18:30"

\* C23 as stated: once a handler has answered or a script has ended, the
\* store connection it opened is closed, on every exit path.
C23_Original ==
  /\ \A c \in Calls : calls[c].pc = "done" => calls[c].conn # "open"
  /\ issueRes.conn # "open"
  /\ link.pc = "off" => link.conn # "open"

\* C24 as stated: an authenticated validate request whose token is not a
\* well-formed ticket token is answered 400 before any store lookup (no store
\* connection is opened for it), and never answered 500.
C24_Original ==
  \A c \in Calls :
    (calls[c].pc # "idle" /\ calls[c].bearer # "" /\ calls[c].ticketId # 0
       /\ ~IsUuid(calls[c].ticketId)) =>
      /\ calls[c].pc = "done"
      /\ calls[c].res.http = 400
      /\ calls[c].conn = "none"

\* the distinct well-formed tokens among the ticketIds of a burn request
DistinctWellFormed(input) ==
  { t \in 1 .. NoTicket : \E n \in DOMAIN input : input[n] = t }

\* C25 as stated: the burned count of an answered burn is the number of
\* distinct well-formed tokens of its input.
C25_Original ==
  burnRes.http = 200 =>
    burnRes.burned = Cardinality(DistinctWellFormed(burnRes.input))

\* a burn request with the admin key is answered 400 when its input holds no
\* well-formed token, and else 200 with the number of tickets its distinct
\* well-formed tokens name
C25_CountStep ==
  burnRes' # burnRes =>
    LET wellFormed == DistinctWellFormed(burnRes'.input)
    IN  IF wellFormed = {}
        THEN burnRes'.http = 400 /\ burnRes'.burned = 0
        ELSE /\ burnRes'.http = 200
             /\ burnRes'.burned = Cardinality(wellFormed \cap DOMAIN tickets)

\* C25: the burned count is the number of distinct well-formed tokens of the
\* input that name a ticket: malformed entries are dropped without error,
\* duplicates are collapsed, a used ticket counts like an unused one, and a
\* well-formed token of no ticket is not counted.
C25_BurnedCount == [][C25_CountStep]_vars

\* ticket 1, redeemed by a scanner before, burned by a request that names it
\* twice next to a malformed entry: counted once
C25_Witness ==
  /\ burnRes.http = 200
  /\ burnRes.input = << 1, -1, 1 >>
  /\ burnRes.burned = 1
  /\ calls[1].pc = "done" /\ calls[1].ticketId = 1 /\ calls[1].res.status = "VALID"
  /\ tickets[1].used /\ tickets[1].used_by_scanner_key_id = Null

\* the request of an admin response presented the configured admin key
Admitted(r) == r.requiredKey # "" /\ r.bearer = r.requiredKey

\* what the claim says of the response r of an admin route
RejectedAsStated(r) ==
  /\ r.requiredKey = "" => r.http = 500
  /\ (r.requiredKey # "" /\ r.bearer # r.requiredKey) => r.http = 401
  /\ ~Admitted(r) => r.conn = "none"

\* answered burn and list-by-email requests without the configured admin key
\* got 500 or 401, opened no store connection, and carry no count and no rows
C26_Rejected ==
  /\ burnRes.http # 0 => RejectedAsStated(burnRes)
  /\ listRes.http # 0 => RejectedAsStated(listRes)
  /\ ~Admitted(burnRes) => burnRes.burned = 0
  /\ ~Admitted(listRes) => listRes.rows = {}

\* a rejected burn request and every list-by-email request leave the table as
\* it is
C26_RejectedStep ==
  /\ (burnRes' # burnRes /\ ~Admitted(burnRes')) => tickets' = tickets
  /\ listRes' # listRes => tickets' = tickets

\* C26: a burn or list-by-email request changes or reads tickets only when it
\* presents the configured admin key; without a configured key the answer is
\* 500, with a configured key and a missing or wrong bearer it is 401, and in
\* both cases no ticket is modified and no store connection is opened.
C26_AdminOnly == []C26_Rejected /\ [][C26_RejectedStep]_vars

\* with an unused ticket in the table: a burn request presenting the issue key
\* where an admin key is configured was answered 401, and a list request where
\* no key is configured was answered 500
C26_Witness ==
  /\ Len(tickets) >= 1 /\ ~tickets[1].used
  /\ burnRes.http = 401 /\ burnRes.bearer = "ik" /\ burnRes.requiredKey = "ak"
  /\ burnRes.input = << 1 >> /\ burnRes.conn = "none"
  /\ listRes.http = 500 /\ listRes.bearer = "ik" /\ listRes.requiredKey = ""
  /\ listRes.email = "A@B.is" /\ listRes.rows = {}

\* what may be wrapped around a token: whitespace, zero-width characters and
\* their percent-encodings
Wrappers == {" ", "zw", "%20", "%zw"}

\* the text is the canonical token t1, plain or percent-encoded, wrapped in
\* whitespace, zero-width characters or percent-encoding
WrappedToken(s) == Without(s, Wrappers) \in {<< "t1" >>, << "t1enc" >>}

\* C27: extractUuid returns its own results unchanged, and it returns the
\* canonical token from every text that wraps the token in whitespace,
\* zero-width characters or percent-encoding.
C27_Idempotent ==
  (eval.fn = "uuid" /\ eval.done) =>
    /\ eval.out.token # Null => eval.out.again = eval.out.token
    /\ WrappedToken(eval.input) => eval.out.token = Some("t1")

\* the percent-encoded token between an encoded zero-width character and a
\* blank, extracted, and extracted again from the result
C27_Witness ==
  /\ eval.fn = "uuid" /\ eval.done
  /\ eval.input = << "%zw", "t1enc", " " >>
  /\ eval.out.token = Some("t1")
  /\ eval.out.again = Some("t1")

\* an answered validate call says ALREADY_USED or NOT_FOUND exactly when its
\* conditional update changed no row
C28_ZeroRows ==
  \A c \in Calls :
    (calls[c].pc = "done" /\ calls[c].res.http = 200) =>
      (calls[c].res.status \in {"ALREADY_USED", "NOT_FOUND"} <=> calls[c].rowCount = 0)

\* no step of a validate call whose update changed no row changes the table
C28_ZeroRowStep ==
  \A c \in Calls :
    (calls'[c] # calls[c] /\ calls'[c].rowCount = 0) => tickets' = tickets

\* C28: a validate call that returns ALREADY_USED or NOT_FOUND leaves every
\* ticket unchanged: neither its zero-row update nor its re-read modifies a
\* field of a ticket, so a used ticket keeps the used_at and the
\* used_by_scanner_key_id of the earlier transition.
C28_ReadOnlyReread == []C28_ZeroRows /\ [][C28_ZeroRowStep]_vars

\* ticket 1, redeemed with key k1, presented again with key k2 of the same
\* event and answered ALREADY_USED: it carries the stamp of k1, and so does
\* the ticket of the response
C28_Witness ==
  /\ calls[1].pc = "done" /\ calls[1].res.status = "VALID" /\ calls[1].ticketId = 1
  /\ calls[1].scannerKeyId = "k1"
  /\ calls[2].pc = "done" /\ calls[2].ticketId = 1
  /\ calls[2].scannerKeyId = "k2"
  /\ calls[2].res.status = "ALREADY_USED"
  /\ calls[2].res.ticket # Null
  /\ calls[2].res.ticket[1].used_by_scanner_key_id = Some("k1")
  /\ tickets[1].used_by_scanner_key_id = Some("k1")

\* C29 as stated: the scanner key stamped on a ticket by validate is active
\* and unexpired at the time the conditional update stamped it (used_at is the
\* store clock of that update).
C29_Original ==
  \A i \in DOMAIN tickets :
    (tickets[i].used /\ tickets[i].used_by_scanner_key_id # Null) =>
      \E k \in ScannerKeys :
        /\ k.id = tickets[i].used_by_scanner_key_id[1]
        /\ k.active
        /\ (k.expires_at = Null \/ k.expires_at[1] > tickets[i].used_at[1])

\* C30 as stated: a type text without a food word resolves to the dance-only
\* type only when it is exactly "ball" or holds the words bara and ball, and a
\* text without the word ball resolves to no type, in both resolvers.
C30_Original ==
  (eval.fn = "type" /\ eval.done
     /\ ~(hasWord(EvalKey, "mat") \/ hasWord(EvalKey, "matur"))) =>
    LET danceOnly == \/ EvalKey = << "ball" >>
                     \/ hasWord(EvalKey, "bara") /\ hasWord(EvalKey, "ball")
    IN  /\ eval.out.send = "tt2" => danceOnly
        /\ eval.out.bulk = "tt2" => danceOnly
        /\ ~hasWord(EvalKey, "ball") => eval.out.send = "" /\ eval.out.bulk = ""

\* the paid rows of the source, one per email
Eligible == dedupe(paidRowsFrom(1), {})

\* the log as the current run found it holds an ok=true record of email e
HasOkRecord(e) ==
  \E m \in 1 .. pipe.l0 : ledger[m].ok /\ normalizeEmail(ledger[m].email) = e

\* the current run has the recipient e pending
IsPending(e) == \E m \in DOMAIN pipe.pending : pipe.pending[m].email = e

\* C31: a run of send-paid-link-tickets takes a recipient for already sent
\* exactly when the log it found holds an ok=true record of the recipient's
\* normalized email; a recipient with ok=false records only is pending, and a
\* run that is not a dry run and ends by itself has called issue for every
\* pending recipient.
C31_AlreadySent ==
  pipe.runs >= 1 =>
    /\ \A n \in DOMAIN Eligible :
         IsPending(Eligible[n].email) <=> ~HasOkRecord(Eligible[n].email)
    /\ (pipe.pc = "off" /\ pipe.exitCode = 0 /\ ~pipe.dryRun) =>
         pipe.called = [n \in DOMAIN pipe.pending |-> pipe.pending[n].email]

\* the second run found an ok=false record of a@b.is and an ok=true record of
\* c@d.is, had a@b.is alone pending and called issue for it
C31_Witness ==
  /\ pipe.runs = 2 /\ pipe.l0 = 2
  /\ ledger[1].email = "a@b.is" /\ ~ledger[1].ok
  /\ ledger[2].email = "c@d.is" /\ ledger[2].ok
  /\ Len(pipe.pending) = 1 /\ pipe.pending[1].email = "a@b.is"
  /\ pipe.called = << "a@b.is" >>

\* the waits of an issue call, in ms: Waits[k] comes before attempt k + 1
Waits == << 800, 1600, 3200, 6400, 12800 >>

\* a wait is held only by a call that goes on to a further attempt, and it is
\* the wait of the attempt that failed
C32_WaitHeld ==
  pipe.slept # 0 =>
    /\ pipe.pc = "send"
    /\ pipe.attempt - 1 \in DOMAIN Waits
    /\ pipe.slept = Waits[pipe.attempt - 1]

\* an attempt that is followed by a further one is followed by its wait,
\* whatever failed; an attempt that ends the call is followed by no wait
C32_WaitStep ==
  /\ pipe'.attempt = pipe.attempt + 1 =>
       /\ pipe.attempt \in DOMAIN Waits
       /\ pipe'.slept = Waits[pipe.attempt]
       /\ pipe'.last = 0 \/ pipe'.last = 429 \/ pipe'.last >= 500
  /\ (pipe.pc = "send" /\ pipe'.pc = "log") => pipe'.slept = 0

\* C32: within one retried issue call the wait before attempt k + 1 is
\* 800 * 2^(k-1) ms for k = 1..5 (800, 1600, 3200, 6400, 12800), the same
\* after a retryable status as after a network failure, and no wait follows
\* the final attempt.
C32_Backoff == []C32_WaitHeld /\ [][C32_WaitStep]_vars

\* the fifth attempt of a call got no response and the call waited 12800 ms
\* before its sixth
C32_Witness ==
  /\ pipe.pc = "send"
  /\ pipe.attempt = IssueMaxAttempts
  /\ pipe.last = 0
  /\ pipe.slept = 12800

\* the issue request the last response answers is one the handler rejects
\* before its insert: bad bearer, missing ticketTypeId or email, or a
\* ticketTypeId of no ticket type
RejectedBeforeInsert(r) ==
  \/ ISSUE_API_KEY # "" /\ r.bearer # ISSUE_API_KEY
  \/ r.ticketTypeId = "" \/ r.to = ""
  \/ \A tt \in TicketTypes : tt.id # r.ticketTypeId

\* such a request is answered 401 or 400 without a delivery step
C33_RejectedResponse ==
  (issueRes.http # 0 /\ RejectedBeforeInsert(issueRes)) =>
    /\ issueRes.http \in {400, 401}
    /\ ~issueRes.ok
    /\ issueRes.email = Null
    /\ issueRes.delivery = "none"

\* the step of such a request leaves the table as it is
C33_RejectedStep ==
  (issueRes' # issueRes /\ RejectedBeforeInsert(issueRes')) => tickets' = tickets

\* C33: an issue request rejected before the insert (missing ticketTypeId or
\* email, a ticketTypeId of no ticket type, a missing or wrong bearer with an
\* issue key configured) creates no ticket row and sends no message.
C33_NoRowNoMail == []C33_RejectedResponse /\ [][C33_RejectedStep]_vars

\* with one ticket in the table, a request with the right key for the type
\* ttx, which is no ticket type, was answered 400 and the table still holds
\* that one ticket
C33_Witness ==
  /\ Len(tickets) = 1
  /\ issueRes.bearer = "ik" /\ issueRes.ticketTypeId = "ttx" /\ issueRes.to = "a@b.is"
  /\ issueRes.http = 400
  /\ issueRes.conn = "closed"

\* C34 as stated: the ticket returned with a VALID response is used and
\* carries the key id of the caller.
C34_Original ==
  \A c \in Calls :
    (calls[c].pc = "done" /\ calls[c].res.status = "VALID") =>
      /\ calls[c].res.ticket # Null
      /\ calls[c].res.ticket[1].used
      /\ calls[c].res.ticket[1].used_by_scanner_key_id = Some(calls[c].scannerKeyId)

\* C35 as stated, for bulk-issue: a row counts as succeeded exactly when its
\* issue response has a success status and ok true, whatever the email
\* sub-result of the response.
C35_Original ==
  \A n \in DOMAIN bulk.results :
    bulk.results[n].counted = "ok" <=> bulk.results[n].ok

\* the recipients of the rows of the run: pending.slice(0, limit)
Sliced == [k \in 1 .. pipe.limit |-> pipe.pending[k].email]

\* the rows in the run are the first rows of pending, as many as --max allows,
\* and the calls made so far are for the first of them, one call each
C36_OnePerRecipient ==
  /\ pipe.limit <= Len(pipe.pending)
  /\ Len(RunCalls) <= pipe.limit
  /\ RunCalls = SubSeq(Sliced, 1, Len(RunCalls))
  /\ \A m, n \in DOMAIN RunCalls : RunCalls[m] = RunCalls[n] => m = n
  /\ pipe.pc = "off" => Len(RunCalls) = pipe.limit

\* the step that appends an ok=false record leaves the loop running when a
\* row of the run remains, and moves to that row
C36_FailureStep ==
  (ledger' # ledger /\ ~ledger'[Len(ledger')].ok) =>
    /\ ledger'[Len(ledger')].email = pipe.pending[pipe.i].email
    /\ pipe'.i = pipe.i + 1
    /\ pipe.i < pipe.limit => pipe'.pc = "send"
    /\ pipe.i = pipe.limit => pipe'.pc = "off" /\ pipe'.exitCode = 0

\* C36: a final failure for one recipient does not end the run: the step that
\* appends the ok=false record moves on to the next row, a run that has
\* started ends with every row of pending.slice(0, limit) called, and each of
\* them is called once.
C36_FailureDoesNotStop ==
  /\ []C36_OnePerRecipient
  /\ [][C36_FailureStep]_vars
  /\ (pipe.pc = "send") ~> (pipe.pc = "off" /\ RunCalls = Sliced)

\* a run over two pending recipients failed for the first one and went on to
\* call the second
C36_Witness ==
  /\ pipe.pc = "off" /\ pipe.limit = 2
  /\ Len(RunRecords) = 2
  /\ ~RunRecords[1].ok
  /\ RunCalls = Sliced

\* with --max 1 and two pending recipients the run ends after the first
C36_WitnessLimit ==
  /\ pipe.pc = "off" /\ pipe.limit = 1 /\ Len(pipe.pending) = 2
  /\ Len(RunRecords) = 1 /\ ~RunRecords[1].ok
\* C37 as stated: a real run passes over a recipient as already resent only
\* when a real run has sent that recipient the message; the records a dry
\* run wrote do not count.
C37_Original ==
  ~resend.dryRun => resend.skipped \subseteq resend.mailed
\* the unused tickets of the email of the run
UnusedOfEmail ==
  { i \in DOMAIN tickets :
      lowerEmail(tickets[i].email) = lowerEmail(dup.email) /\ ~tickets[i].used }

\* C38 as stated: when a run that is no dry run found two or more unused
\* tickets for the email and its burn request succeeded, the ticket it kept
\* was not burned and is the one unused ticket of the email, with
\* --keep-latest and with --keep of any id.
C38_Original ==
  (dup.pc = "off" /\ dup.outcome = "burned" /\ Cardinality(dup.unused) >= 2) =>
    /\ dup.keepId \notin dup.toBurn
    /\ Cardinality(UnusedOfEmail) = 1
\* the busy flag is set exactly while a request is in flight or the timer
\* that clears the flag is pending, and there is one of those at most
C39_Busy ==
  /\ scan.inFlight <= 1
  /\ scan.inFlight + scan.timers <= 1
  /\ scan.busyRef <=> (scan.inFlight + scan.timers = 1)
  /\ scan.busy = scan.busyRef

\* a step taken while the busy flag is set sends no request
C39_BusyStep == scan.busyRef => scan'.inFlight <= scan.inFlight

\* C39: the scan page has at most one validate request in flight; a scan or
\* manual check arriving while the busy flag is set sends none; and the busy
\* flag, once set, is cleared again after the request, whatever it ended with.
C39_OneInFlight ==
  /\ []C39_Busy
  /\ [][C39_BusyStep]_vars
  /\ scan.busyRef ~> ~scan.busyRef

\* a request threw, a call that arrived while the flag was set was dropped,
\* the flag was cleared, and the next request is in flight
C39_Witness ==
  /\ scan.dropped > 0
  /\ scan.history = << "ERROR" >>
  /\ scan.scannerKey = "s1"
  /\ scan.inFlight = 1
\* the line holds a JSON object with ok true and the email address e, in any
\* case
WellFormedOk(line, e) ==
  /\ {"ok", "email"} \subseteq DOMAIN line
  /\ line.ok
  /\ line.email \in (IF e = "a@b.is" THEN {"a@b.is", "A@B.is", " A@B.is"}
                     ELSE IF e = "c@d.is" THEN {"c@d.is", "C@D.is"} ELSE {e})

\* a start of the send pipeline plans exactly the eligible recipients that
\* have no well-formed ok=true line in the log, whatever else the log holds
C40_PipelineStep ==
  pipe'.runs # pipe.runs =>
    \A n \in DOMAIN Eligible :
      (\E m \in DOMAIN pipe'.pending : pipe'.pending[m].email = Eligible[n].email)
        <=> ~(\E k \in DOMAIN ledger : WellFormedOk(ledger[k], Eligible[n].email))

\* a start of resend-from-log takes as already resent exactly the addresses
\* of the well-formed ok=true lines of its output log
C40_ResendStep ==
  resend'.runs # resend.runs =>
    \A e \in {"a@b.is", "c@d.is"} :
      e \in resend'.already
        <=> \E k \in DOMAIN resend.out : WellFormedOk(resend.out[k], e)

\* C40: replay of a log tolerates damaged content: a line that is no JSON,
\* a record without ok and a record without email are passed over, and every
\* well-formed ok=true record of the file counts as sent, in readJsonlSet and
\* in the replay of resend-from-log.
C40_ReplayTolerant == [][C40_PipelineStep /\ C40_ResendStep]_vars

\* a run started on a log whose first line is cut off and whose second line
\* is the ok record of a@b.is planned c@d.is alone
C40_Witness ==
  /\ pipe.runs = 1 /\ pipe.l0 = 3
  /\ "partial" \in DOMAIN ledger[1]
  /\ WellFormedOk(ledger[2], "a@b.is")
  /\ "ok" \notin DOMAIN ledger[3]
  /\ Len(pipe.pending) = 1 /\ pipe.pending[1].email = "c@d.is"
====
